---------------------------- MODULE Spec2Model ----------------------------
(***************************************************************************)
(* A model of the chess rules engine of chess-rs: src/chess/board.rs,      *)
(* src/chess/pieces.rs, src/chess/moves.rs and src/chess/game.rs.          *)
(*                                                                         *)
(* Conventions.                                                            *)
(*  - Option<T> is a sequence of length at most one: None is <<>> and      *)
(*    Some(x) is <<x>>.                                                    *)
(*  - A Square is the pair <<file_number, rank_number>> of u8 values.      *)
(*  - Vec<Square> caches (Piece.valid_moves) are read by the code only     *)
(*    through membership and iteration, so they are sets here.             *)
(*  - u8 arithmetic is taken modulo 256 (release build).  The one place    *)
(*    where a u8 subtraction can underflow is kept apart: a build with     *)
(*    overflow checks panics there, see OverflowsU8Sub.                    *)
(***************************************************************************)
EXTENDS Integers, Sequences, FiniteSets, TLC

None == <<>>
Some(x) == <<x>>
IsSome(o) == o # <<>>
Unwrap(o) == o[1]

U8 == 256

(***************************************************************************)
(* board.rs: Color                                                         *)
(***************************************************************************)
Colors == {"White", "Black"}

get_opposite(color) == IF color = "White" THEN "Black" ELSE "White"

(***************************************************************************)
(* pieces.rs: Type                                                         *)
(***************************************************************************)
Types == {"King", "Queen", "Rook", "Bishop", "Knight", "Pawn"}

(***************************************************************************)
(* board.rs: Square                                                        *)
(***************************************************************************)
Square(file_number, rank_number) == <<file_number, rank_number>>

file_number(square) == square[1]
rank_number(square) == square[2]

is_valid(square) ==
    /\ file_number(square) >= 1 /\ file_number(square) <= 8
    /\ rank_number(square) >= 1 /\ rank_number(square) <= 8

Files == 1..8
Ranks == 1..8
ValidSquares == {Square(f, r) : f \in Files, r \in Ranks}

\* ((file as i8) + relative) as u8: the cast wraps
get_relative(square, file_relative, rank_relative) ==
    Square((file_number(square) + file_relative) % U8,
           (rank_number(square) + rank_relative) % U8)

RECURSIVE get_relatives_until_invalid(_, _, _)
get_relatives_until_invalid(square, file_relative, rank_relative) ==
    LET current == get_relative(square, file_relative, rank_relative)
    IN  IF ~is_valid(current)
        THEN <<>>
        ELSE <<current>> \o get_relatives_until_invalid(current, file_relative, rank_relative)

Abs(x) == IF x < 0 THEN -x ELSE x

\* the "while let Some(element) = path.pop()" loop of find_path_to
RECURSIVE PopUntil(_, _)
PopUntil(path, other) ==
    IF path = <<>>
    THEN <<>>
    ELSE LET element == path[Len(path)]
             rest == SubSeq(path, 1, Len(path) - 1)
         IN  IF element = other THEN rest ELSE PopUntil(rest, other)

find_path_to(self, other) ==
    IF other = self
    THEN Some(<<>>)
    ELSE LET file_change == file_number(other) - file_number(self)
             rank_change == rank_number(other) - rank_number(self)
             file_change_reduced == IF file_change = 0 THEN 0 ELSE file_change \div Abs(file_change)
             rank_change_reduced == IF rank_change = 0 THEN 0 ELSE rank_change \div Abs(rank_change)
         IN  IF /\ file_change # 0
                /\ rank_change # 0
                /\ Abs(file_change_reduced) # Abs(rank_change_reduced)
             THEN None
             ELSE Some(PopUntil(get_relatives_until_invalid(self, file_change_reduced, rank_change_reduced),
                                other))

\* find_path_to is a pure function of two squares: evaluated once per pair
PathTable == [a \in ValidSquares |-> [b \in ValidSquares |-> find_path_to(a, b)]]

get_unique_index(square) == (rank_number(square) - 1) * 8 + (file_number(square) - 1)

SeqToSet(s) == {s[i] : i \in 1..Len(s)}


(***************************************************************************)
(* pieces.rs: candidate generation (MoveController::recalculate_valid_moves)*)
(* Each controller pushes squares onto piece.valid_moves; the result here  *)
(* is the set of squares pushed, before the retain(is_valid) of            *)
(* Piece::recalculate_valid_moves.                                         *)
(***************************************************************************)
get_advance_direction(color) == IF color = "White" THEN 1 ELSE -1

PawnCandidates(location, color) ==
    LET advance_direction == get_advance_direction(color)
    IN  {get_relative(location, 0, advance_direction),
         get_relative(location, 1, advance_direction),
         get_relative(location, -1, advance_direction)}
        \cup
        (IF \/ (rank_number(location) = 2 /\ color = "White")
            \/ (rank_number(location) = 7 /\ color = "Black")
         THEN {get_relative(location, 0, advance_direction * 2)}
         ELSE {})

RookCandidates(location) ==
    SeqToSet(get_relatives_until_invalid(location, -1, 0))
    \cup SeqToSet(get_relatives_until_invalid(location, 1, 0))
    \cup SeqToSet(get_relatives_until_invalid(location, 0, 1))
    \cup SeqToSet(get_relatives_until_invalid(location, 0, -1))

KnightCandidates(location) ==
    {get_relative(location, 1, 2), get_relative(location, -1, 2),
     get_relative(location, 1, -2), get_relative(location, -1, -2),
     get_relative(location, 2, 1), get_relative(location, -2, 1),
     get_relative(location, 2, -1), get_relative(location, -2, -1)}

BishopCandidates(location) ==
    SeqToSet(get_relatives_until_invalid(location, -1, -1))
    \cup SeqToSet(get_relatives_until_invalid(location, 1, -1))
    \cup SeqToSet(get_relatives_until_invalid(location, -1, 1))
    \cup SeqToSet(get_relatives_until_invalid(location, 1, 1))

\* the eighth ray of the source repeats (-1, -1); the ray (1, 1) is never pushed
QueenCandidates(location) ==
    SeqToSet(get_relatives_until_invalid(location, -1, 0))
    \cup SeqToSet(get_relatives_until_invalid(location, 1, 0))
    \cup SeqToSet(get_relatives_until_invalid(location, 0, 1))
    \cup SeqToSet(get_relatives_until_invalid(location, 0, -1))
    \cup SeqToSet(get_relatives_until_invalid(location, -1, -1))
    \cup SeqToSet(get_relatives_until_invalid(location, 1, -1))
    \cup SeqToSet(get_relatives_until_invalid(location, -1, 1))
    \cup SeqToSet(get_relatives_until_invalid(location, -1, -1))

\* faulty variant of KingCandidates: the squares two files to either side are
\* candidates as well
KingCandidatesWithCastling(location) ==
    {get_relative(location, -1, -1), get_relative(location, -1, 0),
     get_relative(location, -1, 1), get_relative(location, 0, -1),
     get_relative(location, 0, 1), get_relative(location, 1, -1),
     get_relative(location, 1, 0), get_relative(location, 1, 1),
     get_relative(location, -2, 0), get_relative(location, 2, 0)}

KingCandidates(location) ==
    {get_relative(location, -1, -1), get_relative(location, -1, 0),
     get_relative(location, -1, 1), get_relative(location, 0, -1),
     get_relative(location, 0, 1), get_relative(location, 1, -1),
     get_relative(location, 1, 0), get_relative(location, 1, 1)}

\* Piece::recalculate_valid_moves: clear, let the controller push, retain the valid squares
recalculate_valid_moves(location, color, piece_type) ==
    LET pushed == CASE piece_type = "King" -> KingCandidates(location)
                    [] piece_type = "Queen" -> QueenCandidates(location)
                    [] piece_type = "Rook" -> RookCandidates(location)
                    [] piece_type = "Bishop" -> BishopCandidates(location)
                    [] piece_type = "Knight" -> KnightCandidates(location)
                    [] piece_type = "Pawn" -> PawnCandidates(location, color)
    IN  {m \in pushed : is_valid(m)}

\* recalculate_valid_moves is a pure function of (location, color, type): evaluated once each
ValidMovesTable ==
    [piece_type \in Types |-> [color \in Colors |-> [location \in ValidSquares |->
        recalculate_valid_moves(location, color, piece_type)]]]

\* Piece::new
NewPiece(location, color, piece_type) ==
    [location |-> location,
     color |-> color,
     piece_type |-> piece_type,
     valid_moves |-> ValidMovesTable[piece_type][color][location]]

\* impl PartialEq for Piece: the cache is not compared
PieceEq(a, b) ==
    a.location = b.location /\ a.color = b.color /\ a.piece_type = b.piece_type

(***************************************************************************)
(* moves.rs: Extra, NewMove, HistoryMove, MoveFailureReason                *)
(***************************************************************************)
ExtraNone == <<"None">>
MoveCheck == <<"MoveCheck">>
Promotion(piece_type) == <<"Promotion", piece_type>>
Extras == {ExtraNone, MoveCheck} \cup {Promotion(t) : t \in Types}

NewMove(from, to, extra) == [from |-> from, to |-> to, extra |-> extra]

HistoryMove(piece_color, piece_type, from, to, capture, extra) ==
    [piece_color |-> piece_color, piece_type |-> piece_type,
     from |-> from, to |-> to, capture |-> capture, extra |-> extra]

MoveFailureReasons ==
    {"NoPiece", "MoveInvalid", "CannotCaptureOwnPiece", "NotYourPiece",
     "IllegalPieceMove", "InCheckAfterTurn", "NoPreviousPositions", "GameEnded"}

(***************************************************************************)
(* board.rs: CastlingRights, BoardState, Board                             *)
(***************************************************************************)
CastlingRights(short_castle, long_castle) ==
    [short_castle |-> short_castle, long_castle |-> long_castle]

get_castling_rights_for(state, color) ==
    IF color = "White" THEN state.white_castling_rights ELSE state.black_castling_rights

\* the assignments made through get_castling_rights_mut_for
set_castling_rights_for(state, color, rights) ==
    IF color = "White"
    THEN [state EXCEPT !.white_castling_rights = rights]
    ELSE [state EXCEPT !.black_castling_rights = rights]

get_piece(board, location) ==
    IF location \in DOMAIN board.state.pieces
    THEN Some(board.state.pieces[location])
    ELSE None

\* HashMap::insert(piece.location, piece)
set_piece(board, piece) ==
    [board EXCEPT !.state.pieces =
        [l \in (DOMAIN @) \cup {piece.location} |->
            IF l = piece.location THEN piece ELSE @[l]]]

\* HashMap::remove(&location)
remove_piece(board, location) ==
    [board EXCEPT !.state.pieces = [l \in (DOMAIN @) \ {location} |-> @[l]]]

Pieces(board) == {board.state.pieces[l] : l \in DOMAIN board.state.pieces}

is_path_clear(board, path) ==
    \A i \in 1..Len(path) : get_piece(board, path[i]) = None

\* Board::default followed by setup_default_board
InitialRank(color) == IF color = "White" THEN 1 ELSE 8
InitialPawnRank(color) == IF color = "White" THEN 2 ELSE 7
InitialTypes == <<"Rook", "Knight", "Bishop", "Queen", "King", "Bishop", "Knight", "Rook">>

setup_default_board ==
    [highlighted_squares |-> <<>>,
     state |->
        [white_castling_rights |-> CastlingRights(TRUE, TRUE),
         black_castling_rights |-> CastlingRights(TRUE, TRUE),
         en_passant_square |-> None,
         pieces |->
            [l \in {Square(f, r) : f \in Files, r \in {1, 2, 7, 8}} |->
                LET color == IF rank_number(l) <= 2 THEN "White" ELSE "Black"
                IN  IF rank_number(l) = InitialRank(color)
                    THEN NewPiece(l, color, InitialTypes[file_number(l)])
                    ELSE NewPiece(l, color, "Pawn")]],
     last_move |-> None]

(***************************************************************************)
(* pieces.rs: MoveController::check_if_move_valid, Piece::is_move_valid,   *)
(* and board.rs: is_attacked, is_in_check.  King validation asks           *)
(* is_attacked, which asks is_move_valid again: the operators are          *)
(* mutually recursive as in the source.                                    *)
(***************************************************************************)
RECURSIVE is_attacked(_, _, _)

PawnCheckIfMoveValid(board, piece, m) ==
    LET advance_direction == get_advance_direction(piece.color)
        destination_rank == (rank_number(piece.location) + advance_direction) % U8
        first_move_destination_rank ==
            (rank_number(piece.location) + advance_direction * 2) % U8
        forward ==
            /\ \/ destination_rank = rank_number(m.to)
               \/ /\ rank_number(piece.location) \in {2, 7}
                  /\ first_move_destination_rank = rank_number(m.to)
            /\ get_piece(board, m.to) = None
        capture_piece ==
            IF /\ IsSome(board.state.en_passant_square)
               /\ Unwrap(board.state.en_passant_square) = m.to
            THEN get_piece(board, Square(file_number(m.to), rank_number(piece.location)))
            ELSE get_piece(board, m.to)
        diagonal ==
            /\ destination_rank = rank_number(m.to)
            /\ IsSome(capture_piece)
            /\ Unwrap(capture_piece).color # piece.color
        moved ==
            IF file_number(piece.location) = file_number(m.to)
            THEN forward
            ELSE IF \/ file_number(piece.location) = file_number(m.to) - 1
                    \/ file_number(piece.location) = file_number(m.to) + 1
                 THEN diagonal
                 ELSE FALSE
    IN  /\ moved
        /\ IF rank_number(m.to) = 1 \/ rank_number(m.to) = 8
           THEN m.extra = MoveCheck \/ m.extra[1] = "Promotion"
           ELSE TRUE

\* Rook, Bishop and Queen: is_path_clear(find_path_to(..).unwrap())
SlidingCheckIfMoveValid(board, piece, m) ==
    is_path_clear(board, Unwrap(PathTable[piece.location][m.to]))

RECURSIVE validate_can_castle(_, _, _)
validate_can_castle(board, king, rook_location) ==
    /\ ~ \/ (king.color = "White" /\ king.location # Square(5, 1))
         \/ (king.color = "Black" /\ king.location # Square(5, 8))
    /\ LET rook == get_piece(board, rook_location)
       IN  /\ IsSome(rook)
           /\ Unwrap(rook).color = king.color
           /\ Unwrap(rook).piece_type = "Rook"
    /\ LET path == find_path_to(king.location, rook_location)
       IN  IsSome(path) /\ is_path_clear(board, Unwrap(path))

can_castle_short(board, king) ==
    /\ get_castling_rights_for(board.state, king.color).short_castle
    /\ ~is_attacked(board, Square(6, rank_number(king.location)), Some(get_opposite(king.color)))
    /\ validate_can_castle(board, king, Square(1, rank_number(king.location)))

can_castle_long(board, king) ==
    /\ get_castling_rights_for(board.state, king.color).long_castle
    /\ ~is_attacked(board, Square(4, rank_number(king.location)), Some(get_opposite(king.color)))
    /\ validate_can_castle(board, king, Square(1, rank_number(king.location)))

\* "piece.location.file_number - 2" on u8: below zero the subtraction wraps in a
\* release build and panics in a build with overflow checks
OverflowsU8Sub(a, b) == a - b < 0

KingCheckIfMoveValid(board, piece, m) ==
    IF file_number(m.to) = (file_number(piece.location) - 2) % U8
    THEN can_castle_short(board, piece)
    ELSE IF file_number(m.to) = file_number(piece.location) + 2
         THEN can_castle_long(board, piece)
         ELSE TRUE

RECURSIVE check_if_move_valid(_, _, _)
check_if_move_valid(board, piece, m) ==
    CASE piece.piece_type = "Pawn" -> PawnCheckIfMoveValid(board, piece, m)
      [] piece.piece_type = "Knight" -> TRUE
      [] piece.piece_type = "King" -> KingCheckIfMoveValid(board, piece, m)
      [] OTHER -> SlidingCheckIfMoveValid(board, piece, m)

RECURSIVE is_move_valid(_, _, _)
is_move_valid(piece, board, m) ==
    /\ is_valid(m.to)
    /\ m.to \in piece.valid_moves
    /\ check_if_move_valid(board, piece, m)

\* is_move_valid reaches the u8 subtraction of KingMoveController::check_if_move_valid
IsMoveValidOverflows(piece, m) ==
    /\ is_valid(m.to)
    /\ m.to \in piece.valid_moves
    /\ piece.piece_type = "King"
    /\ OverflowsU8Sub(file_number(piece.location), 2)

\* the pieces of `color` (any colour for None) whose validated candidates hold `square`
RECURSIVE Attackers(_, _, _)
Attackers(board, square, color) ==
    {piece \in Pieces(board) :
        /\ color = None \/ Unwrap(color) = piece.color
        /\ is_move_valid(piece, board, NewMove(piece.location, square, MoveCheck))}

is_attacked(board, square, color) == Attackers(board, square, color) # {}

Kings(board, color) ==
    {piece \in Pieces(board) : piece.piece_type = "King" /\ piece.color = color}

is_in_check(board, color) ==
    \E piece \in Kings(board, color) :
        is_attacked(board, piece.location, Some(get_opposite(piece.color)))

(***************************************************************************)
(* pieces.rs: MoveController::after_move                                   *)
(***************************************************************************)
PawnAfterMove(board) ==
    LET last_move == Unwrap(board.last_move)
        piece == Unwrap(get_piece(board, last_move.to))
        piece_color == piece.color
        en_passant_square == board.state.en_passant_square
        capture_square ==
            IF IsSome(en_passant_square) /\ Unwrap(en_passant_square) = last_move.to
            THEN Some(Square(file_number(last_move.to), rank_number(last_move.from)))
            ELSE None
        first_move_destination_rank ==
            (rank_number(last_move.from) + get_advance_direction(piece.color) * 2) % U8
        b1 == [board EXCEPT !.state.en_passant_square =
                  IF first_move_destination_rank = rank_number(last_move.to)
                  THEN Some(get_relative(last_move.from, 0, get_advance_direction(piece.color)))
                  ELSE None]
        new_piece_type ==
            IF last_move.extra[1] = "Promotion" THEN last_move.extra[2] ELSE "Queen"
        b2 == IF rank_number(last_move.to) = 1 \/ rank_number(last_move.to) = 8
              THEN set_piece(remove_piece(b1, last_move.to),
                             NewPiece(last_move.to, piece_color, new_piece_type))
              ELSE b1
    IN  IF IsSome(capture_square)
        THEN remove_piece([b2 EXCEPT !.last_move = Some([last_move EXCEPT !.capture = TRUE])],
                          Unwrap(capture_square))
        ELSE b2

\* faulty variant of RookAfterMove: a rook move leaves the castling rights alone
RookAfterMoveKeepsRights(board) == board

RookAfterMove(board) ==
    LET last_move == Unwrap(board.last_move)
        color == last_move.piece_color
        s1 == IF file_number(last_move.from) = 8
              THEN set_castling_rights_for(board.state, color,
                       [get_castling_rights_for(board.state, color) EXCEPT !.short_castle = FALSE])
              ELSE board.state
        s2 == IF file_number(last_move.from) = 1
              THEN set_castling_rights_for(s1, color,
                       [get_castling_rights_for(s1, color) EXCEPT !.long_castle = FALSE])
              ELSE s1
    IN  [board EXCEPT !.state = s2]

\* faulty variant of KingAfterMove: only the short-castle flag is cleared
KingAfterMoveKeepsLong(board) ==
    LET last_move == Unwrap(board.last_move)
        short == file_number(last_move.to) = file_number(last_move.from) + 2
        long == file_number(last_move.to) = (file_number(last_move.from) - 2) % U8
        rook_from == IF long THEN Some(Square(1, rank_number(last_move.to)))
                     ELSE IF short THEN Some(Square(8, rank_number(last_move.to)))
                     ELSE None
        rook_to == IF long THEN Some(Square(4, rank_number(last_move.to)))
                   ELSE IF short THEN Some(Square(6, rank_number(last_move.to)))
                   ELSE None
        b1 == IF IsSome(rook_from) /\ IsSome(rook_to)
              THEN set_piece(remove_piece(board, Unwrap(rook_from)),
                             NewPiece(Unwrap(rook_to), last_move.piece_color, "Rook"))
              ELSE board
    IN  [b1 EXCEPT !.state =
            set_castling_rights_for(b1.state, last_move.piece_color,
                [get_castling_rights_for(b1.state, last_move.piece_color)
                    EXCEPT !.short_castle = FALSE])]

KingAfterMove(board) ==
    LET last_move == Unwrap(board.last_move)
        short == file_number(last_move.to) = file_number(last_move.from) + 2
        long == file_number(last_move.to) = (file_number(last_move.from) - 2) % U8
        rook_from == IF long THEN Some(Square(1, rank_number(last_move.to)))
                     ELSE IF short THEN Some(Square(8, rank_number(last_move.to)))
                     ELSE None
        rook_to == IF long THEN Some(Square(4, rank_number(last_move.to)))
                   ELSE IF short THEN Some(Square(6, rank_number(last_move.to)))
                   ELSE None
        b1 == IF IsSome(rook_from) /\ IsSome(rook_to)
              THEN set_piece(remove_piece(board, Unwrap(rook_from)),
                             NewPiece(Unwrap(rook_to), last_move.piece_color, "Rook"))
              ELSE board
    IN  [b1 EXCEPT !.state =
            set_castling_rights_for(b1.state, last_move.piece_color, CastlingRights(FALSE, FALSE))]

\* Piece::after_move: dispatch on the type of the piece that was placed on m.to
after_move(piece, board) ==
    CASE piece.piece_type = "Pawn" -> PawnAfterMove(board)
      [] piece.piece_type = "Rook" -> RookAfterMove(board)
      [] piece.piece_type = "King" -> KingAfterMove(board)
      [] OTHER -> board

(***************************************************************************)
(* board.rs: Board::make_move_if_valid.  The result is the pair of the     *)
(* Result (err: None for Ok) and the board as the call leaves it.          *)
(***************************************************************************)
BoardResult(err, board) == [err |-> err, board |-> board]

\* faulty variant of make_move_if_valid: the moving piece is lifted off the board
\* before the own-piece test of lines 453-460
make_move_if_valid_lifts_first(board, m) ==
    LET found == get_piece(board, m.from)
    IN  IF found = None
        THEN BoardResult(Some("NoPiece"), board)
        ELSE
        LET piece == Unwrap(found)
            target == get_piece(board, m.to)
        IN  IF ~is_move_valid(piece, board, m)
            THEN BoardResult(Some("MoveInvalid"), board)
            ELSE IF IsSome(target) /\ Unwrap(target).color = piece.color
            THEN BoardResult(Some("CannotCaptureOwnPiece"), remove_piece(board, m.from))
            ELSE
            LET new_piece == NewPiece(m.to, piece.color, piece.piece_type)
            IN  BoardResult(None,
                    [after_move(new_piece,
                         set_piece([remove_piece(remove_piece(board, m.from), m.to)
                                       EXCEPT !.last_move =
                                           Some(HistoryMove(piece.color, piece.piece_type,
                                                            m.from, m.to, IsSome(target),
                                                            m.extra))],
                                   new_piece))
                       EXCEPT !.highlighted_squares = <<m.from, m.to>>])

\* faulty variant of make_move_if_valid: the moved Piece value is re-keyed to the
\* destination with the candidate list of the square it came from
make_move_if_valid_moves_record(board, m) ==
    LET found == get_piece(board, m.from)
    IN  IF found = None
        THEN BoardResult(Some("NoPiece"), board)
        ELSE
        LET piece == Unwrap(found)
            target == get_piece(board, m.to)
        IN  IF ~is_move_valid(piece, board, m)
            THEN BoardResult(Some("MoveInvalid"), board)
            ELSE IF IsSome(target) /\ Unwrap(target).color = piece.color
            THEN BoardResult(Some("CannotCaptureOwnPiece"), board)
            ELSE
            LET was_capture == IsSome(target)
                removed == remove_piece(remove_piece(board, m.from), m.to)
                recorded == [removed EXCEPT !.last_move =
                                Some(HistoryMove(piece.color, piece.piece_type,
                                                 m.from, m.to, was_capture, m.extra))]
                new_piece == [piece EXCEPT !.location = m.to]
                placed == after_move(new_piece, set_piece(recorded, new_piece))
            IN  BoardResult(None, [placed EXCEPT !.highlighted_squares = <<m.from, m.to>>])

make_move_if_valid(board, m) ==
    LET found == get_piece(board, m.from)
    IN  IF found = None
        THEN BoardResult(Some("NoPiece"), board)
        ELSE
        LET piece == Unwrap(found)
            target == get_piece(board, m.to)
        IN  IF ~is_move_valid(piece, board, m)
            THEN BoardResult(Some("MoveInvalid"), board)
            ELSE IF IsSome(target) /\ Unwrap(target).color = piece.color
            THEN BoardResult(Some("CannotCaptureOwnPiece"), board)
            ELSE
            LET was_capture == IsSome(target)
                removed == remove_piece(remove_piece(board, m.from), m.to)
                recorded == [removed EXCEPT !.last_move =
                                Some(HistoryMove(piece.color, piece.piece_type,
                                                 m.from, m.to, was_capture, m.extra))]
                new_piece == NewPiece(m.to, piece.color, piece.piece_type)
                placed == after_move(new_piece, set_piece(recorded, new_piece))
            IN  BoardResult(None, [placed EXCEPT !.highlighted_squares = <<m.from, m.to>>])

\* for (_, piece) in pieces.iter_mut() { piece.recalculate_valid_moves() }
recalculate_all_pieces_movements(board) ==
    LET pieces == board.state.pieces
    IN  [board EXCEPT !.state.pieces =
            [l \in DOMAIN pieces |->
                [pieces[l] EXCEPT !.valid_moves =
                    ValidMovesTable[pieces[l].piece_type][pieces[l].color][pieces[l].location]]]]

\* the destinations of Board::get_valid_moves_for_piece (each HistoryMove of the
\* source carries from = piece.location; the model keeps the records)
get_valid_moves_for_piece(board, piece) ==
    {Unwrap(probe.board.last_move) :
        probe \in {r \in {make_move_if_valid(board, NewMove(piece.location, valid_move, MoveCheck)) :
                            valid_move \in piece.valid_moves} :
                      r.err = None /\ ~is_in_check(r.board, piece.color)}}

get_valid_moves_for(board, color) ==
    UNION {get_valid_moves_for_piece(board, piece) :
              piece \in {p \in Pieces(board) : p.color = color}}

\* get_valid_moves_for_piece, lines 388-394: the probed move is not listed
IsNotValid(r, color) == r.err # None \/ is_in_check(r.board, color)

\* get_valid_moves_for(color).is_empty(), without building the list
HasNoValidMoves(board, color) ==
    \A piece \in Pieces(board) :
        piece.color = color =>
            \A valid_move \in piece.valid_moves :
                IsNotValid(make_move_if_valid(board,
                               NewMove(piece.location, valid_move, MoveCheck)),
                           piece.color)

get_pieces_count_by_type(board, color) ==
    [t \in Types |-> Cardinality({l \in DOMAIN board.state.pieces :
                                     /\ board.state.pieces[l].color = color
                                     /\ board.state.pieces[l].piece_type = t})]

(***************************************************************************)
(* board.rs: impl Hash for BoardState, get_hash, impl PartialEq.           *)
(* get_hash feeds a byte stream to DefaultHasher::new() (SipHash with      *)
(* fixed keys) and returns finish().  The model's hash value is the byte   *)
(* stream itself: the 64-bit digest is a function of the stream, and the   *)
(* code never relies on more (it compares the full BoardState after the    *)
(* hashes agree).                                                          *)
(***************************************************************************)
hash_castling_rights(rights) ==
    (IF rights.short_castle THEN 1 ELSE 0) + (IF rights.long_castle THEN 2 ELSE 0)

TypeTag(piece_type) ==
    CASE piece_type = "King" -> 1
      [] piece_type = "Queen" -> 2
      [] piece_type = "Rook" -> 3
      [] piece_type = "Bishop" -> 4
      [] piece_type = "Knight" -> 5
      [] piece_type = "Pawn" -> 6

ColorTag(color) == IF color = "White" THEN 1 ELSE 2

\* the bytes written for the squares from (file, rank) on, in the order of the two loops
RECURSIVE HashSquares(_, _, _)
HashSquares(state, file, rank) ==
    IF file > 8
    THEN <<>>
    ELSE LET here == <<file, rank>> \o
                     (IF Square(file, rank) \in DOMAIN state.pieces
                      THEN <<TypeTag(state.pieces[Square(file, rank)].piece_type),
                             ColorTag(state.pieces[Square(file, rank)].color)>>
                      ELSE <<>>)
         IN  here \o (IF rank = 8
                      THEN HashSquares(state, file + 1, 1)
                      ELSE HashSquares(state, file, rank + 1))

\* faulty variant of get_hash: the cached candidate lists are hashed as well
get_hash_with_caches(state) ==
    <<hash_castling_rights(state.white_castling_rights),
      hash_castling_rights(state.black_castling_rights),
      IF IsSome(state.en_passant_square)
      THEN get_unique_index(Unwrap(state.en_passant_square))
      ELSE 64>>
    \o HashSquares(state, 1, 1)
    \o <<Cardinality({l \in DOMAIN state.pieces : state.pieces[l].valid_moves # {}})>>

get_hash(state) ==
    <<hash_castling_rights(state.white_castling_rights),
      hash_castling_rights(state.black_castling_rights),
      IF IsSome(state.en_passant_square)
      THEN get_unique_index(Unwrap(state.en_passant_square))
      ELSE 64>>
    \o HashSquares(state, 1, 1)

\* the board_hash: 0 of GameState::new
ZeroHash == <<>>

BoardStateEq(self, other) ==
    /\ self.white_castling_rights = other.white_castling_rights
    /\ self.black_castling_rights = other.black_castling_rights
    /\ self.en_passant_square = other.en_passant_square
    /\ Cardinality(DOMAIN self.pieces) = Cardinality(DOMAIN other.pieces)
    /\ \A l \in DOMAIN self.pieces :
          LET this_piece == self.pieces[l]
          IN  /\ this_piece.location \in DOMAIN other.pieces
              /\ PieceEq(other.pieces[this_piece.location], this_piece)

(***************************************************************************)
(* game.rs: GameResult, GameState, Game                                    *)
(***************************************************************************)
Ongoing == <<"Ongoing">>
CheckMate(color) == <<"CheckMate", color>>
Resignation(color) == <<"Resignation", color>>
Stalemated == <<"Stalemated">>
InsufficientMaterial == <<"InsufficientMaterial">>
ThreefoldRepetition == <<"ThreefoldRepetition">>
FiftyMoves == <<"FiftyMoves">>
DrawAgreed == <<"DrawAgreed">>

GameState(board, half_move_clock, current_turn) ==
    [board |-> board,
     half_move_clock |-> half_move_clock,
     current_turn |-> current_turn,
     draw_offers |-> <<>>,
     takeback_offers |-> <<>>,
     board_hash |-> ZeroHash]

\* Game::default: Game { .. } then reset()
NewGame ==
    [state |-> GameState(setup_default_board, 0, "White"),
     state_history |-> <<>>,
     result |-> None]

\* what a call returns, and the game as the call leaves it
Ok(value) == [status |-> "Ok", value |-> value]
Err(reason) == [status |-> "Err", value |-> reason]
Panic == [status |-> "Panic", value |-> "overflow"]
Outcome(ret, game) == [ret |-> ret, game |-> game]

\* faulty variant of SufficientCounts: a single bishop counts as sufficient
SufficientCountsLoneBishop(count) ==
    IF count["Rook"] # 0 \/ count["Queen"] # 0 \/ count["Pawn"] # 0
    THEN TRUE
    ELSE count["Bishop"] >= 1 \/ count["Knight"] >= 3

\* validate_has_sufficient_material, lines 228-238, on the counts of one colour
SufficientCounts(count) ==
    IF count["Rook"] # 0 \/ count["Queen"] # 0 \/ count["Pawn"] # 0
    THEN TRUE
    ELSE IF count["Bishop"] >= 2 \/ count["Knight"] >= 3
    THEN TRUE
    ELSE count["Bishop"] >= 1 /\ count["Knight"] >= 1

validate_has_sufficient_material(game, color) ==
    SufficientCounts(get_pieces_count_by_type(game.state.board, color))

check_for_insufficient_material(game) ==
    /\ ~validate_has_sufficient_material(game, "White")
    /\ ~validate_has_sufficient_material(game, "Black")

RepetitionThreshold == 3

\* faulty variant of check_for_threefold_repetition: the current position is
\* counted twice
check_for_threefold_repetition_early(game) ==
    2 + Cardinality({i \in 1..Len(game.state_history) :
                        /\ game.state_history[i].board_hash
                               = get_hash(game.state.board.state)
                        /\ BoardStateEq(game.state.board.state,
                                        game.state_history[i].board.state)})
        >= RepetitionThreshold

check_for_threefold_repetition(game) ==
    LET current_hash == get_hash(game.state.board.state)
        positions_count ==
            1 + Cardinality({i \in 1..Len(game.state_history) :
                                /\ game.state_history[i].board_hash = current_hash
                                /\ BoardStateEq(game.state.board.state,
                                                game.state_history[i].board.state)})
    IN  positions_count >= RepetitionThreshold

FiftyMoveLimit == 50

\* faulty variant of CommitMove: the state pushed to the history is the new one
CommitMovePushesNew(game, new_board) ==
    LET last_move == Unwrap(new_board.last_move)
        state == [game.state EXCEPT
                     !.board = new_board,
                     !.half_move_clock =
                         IF last_move.capture \/ last_move.piece_type = "Pawn"
                         THEN 0
                         ELSE game.state.half_move_clock,
                     !.current_turn = get_opposite(game.state.current_turn),
                     !.draw_offers = <<>>,
                     !.takeback_offers = <<>>]
    IN  [game EXCEPT
            !.state = state,
            !.state_history =
                Append(@, [state EXCEPT !.board_hash = get_hash(new_board.state)])]

\* faulty variant of CommitMove: lines 151-152 are missing, the offers stay
CommitMoveKeepsOffers(game, new_board) ==
    LET previous_state == game.state
        last_move == Unwrap(new_board.last_move)
    IN  [game EXCEPT
            !.state = [@ EXCEPT
                !.board = new_board,
                !.half_move_clock =
                    IF last_move.capture \/ last_move.piece_type = "Pawn"
                    THEN 0
                    ELSE previous_state.half_move_clock,
                !.current_turn = get_opposite(previous_state.current_turn)],
            !.state_history =
                Append(@, [previous_state EXCEPT
                              !.board_hash = get_hash(previous_state.board.state)])]

\* make_move, lines 144-162: adopt the new board, flip the turn, clear the offers,
\* push the previous state with its hash, reset the clock on a pawn move or a capture
CommitMove(game, new_board) ==
    LET previous_state == game.state
        last_move == Unwrap(new_board.last_move)
    IN  [game EXCEPT
            !.state = [@ EXCEPT
                !.board = new_board,
                !.half_move_clock =
                    IF last_move.capture \/ last_move.piece_type = "Pawn"
                    THEN 0
                    ELSE previous_state.half_move_clock,
                !.current_turn = get_opposite(previous_state.current_turn),
                !.draw_offers = <<>>,
                !.takeback_offers = <<>>],
            !.state_history =
                Append(@, [previous_state EXCEPT
                              !.board_hash = get_hash(previous_state.board.state)])]

\* faulty variant of ResultAfterMove: the check test of line 167 is inverted
ResultAfterMoveInverted(game) ==
    IF HasNoValidMoves(game.state.board, game.state.current_turn)
    THEN IF is_in_check(game.state.board, game.state.current_turn)
         THEN Some(Stalemated)
         ELSE Some(CheckMate(game.state.current_turn))
    ELSE IF check_for_insufficient_material(game)
    THEN Some(InsufficientMaterial)
    ELSE IF check_for_threefold_repetition(game)
    THEN Some(ThreefoldRepetition)
    ELSE IF game.state.half_move_clock >= FiftyMoveLimit
    THEN Some(FiftyMoves)
    ELSE game.result

\* make_move, lines 164-180, on the committed game: the result it assigns
\* (game.result when no branch assigns)
ResultAfterMove(game) ==
    IF HasNoValidMoves(game.state.board, game.state.current_turn)
    THEN IF is_in_check(game.state.board, game.state.current_turn)
         THEN Some(CheckMate(game.state.current_turn))
         ELSE Some(Stalemated)
    ELSE IF check_for_insufficient_material(game)
    THEN Some(InsufficientMaterial)
    ELSE IF check_for_threefold_repetition(game)
    THEN Some(ThreefoldRepetition)
    ELSE IF game.state.half_move_clock >= FiftyMoveLimit
    THEN Some(FiftyMoves)
    ELSE game.result

\* make_move, lines 164-182, on the committed game: the result is settled
\* and the move returned
FinishMove(committed) ==
    Outcome(Ok(Unwrap(committed.state.board.last_move)),
            [committed EXCEPT !.result = ResultAfterMove(committed)])

\* faulty variant of AfterAttempt: the move is committed to the game before the
\* check test, so a rejection hands back a changed game
AfterAttemptCommitsFirst(game, r) ==
    IF IsSome(r.err)
    THEN Outcome(Err(Unwrap(r.err)), game)
    ELSE IF is_in_check(r.board, game.state.current_turn)
    THEN Outcome(Err("InCheckAfterTurn"), CommitMove(game, r.board))
    ELSE FinishMove(CommitMove(game, r.board))

\* faulty variant of AfterAttempt: lines 140-142 are missing
AfterAttemptSkipsCheck(game, r) ==
    IF IsSome(r.err)
    THEN Outcome(Err(Unwrap(r.err)), game)
    ELSE FinishMove(CommitMove(game, r.board))

\* make_move, lines 138-182: r is what make_move_if_valid returned on the clone
AfterAttempt(game, r) ==
    IF IsSome(r.err)
    THEN Outcome(Err(Unwrap(r.err)), game)
    ELSE IF is_in_check(r.board, game.state.current_turn)
    THEN Outcome(Err("InCheckAfterTurn"), game)
    ELSE FinishMove(CommitMove(game, r.board))

\* faulty variant of make_move: the move is attempted on the clone before the
\* owner of the piece is looked at
make_move_attempts_first(game, m) ==
    IF IsSome(game.result)
    THEN Outcome(Err("GameEnded"), game)
    ELSE LET r == make_move_if_valid(game.state.board, m)
         IN  IF IsSome(r.err)
             THEN Outcome(Err(Unwrap(r.err)), game)
             ELSE IF Unwrap(get_piece(game.state.board, m.from)).color # game.state.current_turn
             THEN Outcome(Err("NotYourPiece"), game)
             ELSE AfterAttempt(game, r)

\* Game::make_move with wrapping u8 arithmetic (a build without overflow checks)
make_move(game, m) ==
    IF IsSome(game.result)
    THEN Outcome(Err("GameEnded"), game)
    ELSE IF get_piece(game.state.board, m.from) = None
    THEN Outcome(Err("NoPiece"), game)
    ELSE IF Unwrap(get_piece(game.state.board, m.from)).color # game.state.current_turn
    THEN Outcome(Err("NotYourPiece"), game)
    ELSE AfterAttempt(game, make_move_if_valid(game.state.board, m))

(***************************************************************************)
(* Game::make_move in a build with overflow checks.  The u8 subtraction of *)
(* KingMoveController::check_if_move_valid panics whenever is_move_valid   *)
(* reaches it for a king on file 1.  is_attacked and is_in_check return at *)
(* the first attacker they meet while iterating a HashMap, whose order is  *)
(* arbitrary: when a panicking king and another attacker both qualify,     *)
(* either may come first.  Where no panic occurs the values are those of   *)
(* the wrapping build.                                                     *)
(***************************************************************************)
KingOnFileOne(board) ==
    \E piece \in Pieces(board) :
        piece.piece_type = "King" /\ OverflowsU8Sub(file_number(piece.location), 2)

\* the attackers of `square` whose validation does not reach the underflow
SafeAttackers(board, square, color) ==
    {piece \in Attackers(board, square, color) :
        ~IsMoveValidOverflows(piece, NewMove(piece.location, square, MoveCheck))}

\* the pieces of `color` whose validation of a move to `square` reaches the underflow
OverflowingAttackers(board, square, color) ==
    {piece \in Pieces(board) :
        /\ color = None \/ Unwrap(color) = piece.color
        /\ IsMoveValidOverflows(piece, NewMove(piece.location, square, MoveCheck))}

\* what is_in_check(color) can do: a subset of {"true", "false", "panic"}
IsInCheckOutcomes(board, color, overflow_checks) ==
    IF ~overflow_checks \/ ~KingOnFileOne(board)
    THEN {IF is_in_check(board, color) THEN "true" ELSE "false"}
    ELSE LET opposite == Some(get_opposite(color))
             kings == Kings(board, color)
         IN  (IF \E k \in kings : OverflowingAttackers(board, k.location, opposite) # {}
              THEN {"panic"} ELSE {})
             \cup
             (IF \E k \in kings : SafeAttackers(board, k.location, opposite) # {}
              THEN {"true"} ELSE {})
             \cup
             (IF \A k \in kings : Attackers(board, k.location, opposite) = {}
              THEN {"false"} ELSE {})

\* get_valid_moves_for(color) probes every candidate of every piece of the colour;
\* it can panic / cannot avoid a panic
\* the is_in_check of a probe panics (certainly, or for some iteration order)
ProbeCheckPanics(r, color, certainly) ==
    /\ r.err = None
    /\ IF certainly
       THEN IsInCheckOutcomes(r.board, color, TRUE) = {"panic"}
       ELSE "panic" \in IsInCheckOutcomes(r.board, color, TRUE)

\* one probe of get_valid_moves_for_piece panics
ProbePanics(board, piece, m, certainly) ==
    \/ IsMoveValidOverflows(piece, m)
    \/ ProbeCheckPanics(make_move_if_valid(board, m), piece.color, certainly)

ValidMovesPanic(board, color, certainly) ==
    /\ KingOnFileOne(board)
    /\ \E piece \in Pieces(board) :
          /\ piece.color = color
          /\ \E valid_move \in piece.valid_moves :
                ProbePanics(board, piece,
                            NewMove(piece.location, valid_move, MoveCheck), certainly)

ValidMovesMayPanic(board, color) == ValidMovesPanic(board, color, FALSE)

ValidMovesMustPanic(board, color) == ValidMovesPanic(board, color, TRUE)

\* stands for unwinding out of make_move with the result left as it was
Unwound == Some(<<"Panic">>)

\* lines 164-180 with overflow checks: the results the committed game can get
ResultsAfterMoveChecked(game) ==
    LET board == game.state.board
        turn == game.state.current_turn
    IN  (IF ValidMovesMayPanic(board, turn) THEN {Unwound} ELSE {})
        \cup
        (IF ValidMovesMustPanic(board, turn)
         THEN {}
         ELSE IF HasNoValidMoves(board, turn)
              THEN {IF o = "panic" THEN Unwound
                    ELSE IF o = "true" THEN Some(CheckMate(turn)) ELSE Some(Stalemated) :
                       o \in IsInCheckOutcomes(board, turn, TRUE)}
              ELSE {ResultAfterMove(game)})

\* lines 164-182 with overflow checks, on the committed game
FinishMoveChecked(committed) ==
    {IF res = Unwound
     THEN Outcome(Panic, committed)
     ELSE Outcome(Ok(Unwrap(committed.state.board.last_move)),
                  [committed EXCEPT !.result = res]) :
        res \in ResultsAfterMoveChecked(committed)}

\* lines 140-182 with overflow checks: checks is what is_in_check on the clone can do
AfterCheck(game, new_board, checks) ==
    (IF "panic" \in checks THEN {Outcome(Panic, game)} ELSE {})
    \cup
    (IF "true" \in checks THEN {Outcome(Err("InCheckAfterTurn"), game)} ELSE {})
    \cup
    (IF "false" \in checks THEN FinishMoveChecked(CommitMove(game, new_board)) ELSE {})

\* lines 138-182 with overflow checks
AfterAttemptChecked(game, r) ==
    IF IsSome(r.err)
    THEN {Outcome(Err(Unwrap(r.err)), game)}
    ELSE AfterCheck(game, r.board,
                    IsInCheckOutcomes(r.board, game.state.current_turn, TRUE))

make_move_checked(game, m) ==
    IF IsSome(game.result)
    THEN {Outcome(Err("GameEnded"), game)}
    ELSE IF get_piece(game.state.board, m.from) = None
    THEN {Outcome(Err("NoPiece"), game)}
    ELSE IF Unwrap(get_piece(game.state.board, m.from)).color # game.state.current_turn
    THEN {Outcome(Err("NotYourPiece"), game)}
    ELSE IF IsMoveValidOverflows(Unwrap(get_piece(game.state.board, m.from)), m)
    THEN {Outcome(Panic, game)}
    ELSE AfterAttemptChecked(game, make_move_if_valid(game.state.board, m))

\* every way the call can end in the given build
MakeMoveOutcomes(game, m, overflow_checks) ==
    IF overflow_checks
    THEN make_move_checked(game, m)
    ELSE {make_move(game, m)}

(***************************************************************************)
(* The remaining operations of Game                                        *)
(***************************************************************************)
Unit == <<>>

\* Vec::dedup: removes consecutive repeated elements
RECURSIVE Dedup(_)
Dedup(v) ==
    IF Len(v) <= 1
    THEN v
    ELSE LET rest == Dedup(Tail(v))
         IN  IF Head(v) = Head(rest) THEN rest ELSE <<Head(v)>> \o rest

\* faulty variant of takeback_move: the result is not looked at
takeback_move_unchecked(game) ==
    IF Len(game.state_history) = 0
    THEN Outcome(Err("NoPreviousPositions"), game)
    ELSE Outcome(Ok(Unit),
                 [game EXCEPT
                     !.state_history = SubSeq(@, 1, Len(@) - 1),
                     !.state = [game.state_history[Len(game.state_history)] EXCEPT
                         !.board = recalculate_all_pieces_movements(@)]])

\* faulty variant of takeback_move: the restored state stays in the history
takeback_move_keeps_history(game) ==
    IF IsSome(game.result)
    THEN Outcome(Err("GameEnded"), game)
    ELSE IF Len(game.state_history) = 0
    THEN Outcome(Err("NoPreviousPositions"), game)
    ELSE LET state == game.state_history[Len(game.state_history)]
         IN  Outcome(Ok(Unit),
                     [game EXCEPT
                         !.state = [state EXCEPT
                             !.board = recalculate_all_pieces_movements(state.board)]])

\* faulty variant of takeback_move: the restored state is followed by a second pop
takeback_move_pops_two(game) ==
    IF IsSome(game.result)
    THEN Outcome(Err("GameEnded"), game)
    ELSE IF Len(game.state_history) = 0
    THEN Outcome(Err("NoPreviousPositions"), game)
    ELSE LET state == game.state_history[Len(game.state_history)]
         IN  Outcome(Ok(Unit),
                     [game EXCEPT
                         !.state_history = SubSeq(@, 1, Len(@) - 2),
                         !.state = [state EXCEPT
                             !.board = recalculate_all_pieces_movements(state.board)]])

takeback_move(game) ==
    IF IsSome(game.result)
    THEN Outcome(Err("GameEnded"), game)
    ELSE IF Len(game.state_history) = 0
    THEN Outcome(Err("NoPreviousPositions"), game)
    ELSE LET state == game.state_history[Len(game.state_history)]
         IN  Outcome(Ok(Unit),
                     [game EXCEPT
                         !.state_history = SubSeq(@, 1, Len(@) - 1),
                         !.state = [state EXCEPT
                             !.board = recalculate_all_pieces_movements(state.board)]])

draw(game) ==
    IF IsSome(game.result)
    THEN Outcome(Err("GameEnded"), game)
    ELSE Outcome(Ok(DrawAgreed), [game EXCEPT !.result = Some(DrawAgreed)])

resign(game, color) ==
    IF IsSome(game.result)
    THEN Outcome(Err("GameEnded"), game)
    ELSE Outcome(Ok(Resignation(color)), [game EXCEPT !.result = Some(Resignation(color))])

\* faulty variant of offer_draw: the pushed colour is not deduplicated
offer_draw_without_dedup(game, color) ==
    IF IsSome(game.result)
    THEN Outcome(Err("GameEnded"), game)
    ELSE LET offered == [game EXCEPT !.state.draw_offers = Append(@, color)]
         IN  IF Len(offered.state.draw_offers) = 2
             THEN draw(offered)
             ELSE Outcome(Ok(Ongoing), offered)

offer_draw(game, color) ==
    IF IsSome(game.result)
    THEN Outcome(Err("GameEnded"), game)
    ELSE LET offered == [game EXCEPT
                            !.state.draw_offers = Dedup(Append(@, color))]
         IN  IF Len(offered.state.draw_offers) = 2
             THEN draw(offered)
             ELSE Outcome(Ok(Ongoing), offered)

offer_takeback(game, color) ==
    IF IsSome(game.result)
    THEN Outcome(Err("GameEnded"), game)
    ELSE LET offered == [game EXCEPT
                            !.state.takeback_offers = Dedup(Append(@, color))]
         IN  IF Len(offered.state.takeback_offers) = 2
             THEN LET taken == takeback_move(offered)
                  IN  IF taken.ret.status = "Err"
                      THEN taken
                      ELSE Outcome(Ok(TRUE), taken.game)
             ELSE Outcome(Ok(FALSE), offered)

\* the listing sent to the player whose turn it is (http/proto.rs): the valid
\* moves of every piece of the side to move; the board is borrowed immutably
ListValidMoves(game, overflow_checks) ==
    IF overflow_checks /\ ValidMovesMayPanic(game.state.board, game.state.current_turn)
    THEN {Outcome(Panic, game)}
         \cup (IF ValidMovesMustPanic(game.state.board, game.state.current_turn)
               THEN {}
               ELSE {Outcome(Ok(get_valid_moves_for(game.state.board,
                                                    game.state.current_turn)), game)})
    ELSE {Outcome(Ok(get_valid_moves_for(game.state.board, game.state.current_turn)), game)}

(***************************************************************************)
(* Notation.  A &str is a sequence of characters and a character is the    *)
(* tuple of its UTF-8 bytes, so that lengths and slice indices count bytes *)
(* as str::len and the index operator do.                                  *)
(***************************************************************************)
RECURSIVE Bytes(_)
Bytes(s) == IF s = <<>> THEN <<>> ELSE Head(s) \o Bytes(Tail(s))

\* the number of bytes before the character at position k + 1
Offset(s, k) == Len(Bytes(SubSeq(s, 1, k)))

\* str::is_char_boundary
is_char_boundary(s, index) == \E k \in 0..Len(s) : Offset(s, k) = index

\* the index operator &s[begin..end] panics unless both ends are character boundaries
SlicePanic == [status |-> "Panic", value |-> "byte index is not a char boundary"]

Slice(s, begin, end) ==
    SubSeq(s, (CHOOSE k \in 0..Len(s) : Offset(s, k) = begin) + 1,
              CHOOSE k \in 0..Len(s) : Offset(s, k) = end)

\* char::to_uppercase: ASCII a-z, and U+00E9 (C3 A9) to U+00C9 (C3 89); the other
\* characters used here have no upper case
ToUpperChar(c) ==
    IF Len(c) = 1 /\ c[1] \in 97..122
    THEN <<c[1] - 32>>
    ELSE IF c = <<195, 169>> THEN <<195, 137>> ELSE c

to_uppercase(s) == [k \in 1..Len(s) |-> ToUpperChar(s[k])]

Square_from_str(s) ==
    LET chars == Bytes(to_uppercase(s))
    IN  IF Len(chars) # 2
        THEN Err("IncorrectSquareFormat")
        ELSE IF chars[1] < 65 \/ chars[1] > 72 \/ chars[2] < 49 \/ chars[2] > 56
        THEN Err("InvalidSquare")
        ELSE IF ~is_valid(Square((chars[1] - 65 + 1) % U8, (chars[2] - 49 + 1) % U8))
        THEN Err("InvalidSquare")
        ELSE Ok(Square((chars[1] - 65 + 1) % U8, (chars[2] - 49 + 1) % U8))

\* the two squares of NewMove::from_str, the ? operator returning the first error
MoveOfSquares(from, to) ==
    IF from.status = "Err"
    THEN from
    ELSE IF to.status = "Err"
    THEN to
    ELSE Ok(NewMove(from.value, to.value, ExtraNone))

NewMove_from_str(s) ==
    IF Len(Bytes(s)) # 4
    THEN Err("IncorrectMoveFormat")
    ELSE IF ~is_char_boundary(s, 2)
    THEN SlicePanic
    ELSE MoveOfSquares(Square_from_str(to_uppercase(Slice(s, 0, 2))),
                       Square_from_str(to_uppercase(Slice(s, 2, 4))))

get_file_as_letter(square) == <<(65 + file_number(square) - 1) % U8>>

\* the decimal digits of a u8, as Display writes them
RECURSIVE Decimal(_)
Decimal(n) ==
    IF n < 10 THEN <<<<48 + n>>>> ELSE Decimal(n \div 10) \o <<<<48 + (n % 10)>>>>

\* impl Display for Square
Square_to_string(square) == <<get_file_as_letter(square)>> \o Decimal(rank_number(square))

(***************************************************************************)
(* Inputs.  A game is driven to a position by a fixed sequence of moves    *)
(* (a script, every move given as from-file, from-rank, to-file, to-rank   *)
(* without a promotion tag) and from there by the operations of Game with  *)
(* moves drawn from a small set chosen for that position.                  *)
(***************************************************************************)
Move(q, extra) == NewMove(Square(q[1], q[2]), Square(q[3], q[4]), extra)

OpeningScript == <<>>

\* F2F3 E7E5 G2G4
MateScript ==
    <<<<6,2,6,3>>, <<5,7,5,5>>, <<7,2,7,4>>>>

\* E2E4 D7D6
CheckScript ==
    <<<<5,2,5,4>>, <<4,7,4,6>>>>

\* G1F3 G8F6 F3G1 F6G8 G1F3 G8F6 F3G1
RepetitionScript ==
    <<<<7,1,6,3>>, <<7,8,6,6>>, <<6,3,7,1>>, <<6,6,7,8>>, <<7,1,6,3>>, <<7,8,6,6>>,
      <<6,3,7,1>>>>

\* E2E4 A7A6 E4E5 D7D5
EnPassantScript ==
    <<<<5,2,5,4>>, <<1,7,1,6>>, <<5,4,5,5>>, <<4,7,4,5>>>>

\* A2A4 B7B5 A4B5 A7A6 B5A6 C8B7 A6B7 B8C6
PromotionScript ==
    <<<<1,2,1,4>>, <<2,7,2,5>>, <<1,4,2,5>>, <<1,7,1,6>>, <<2,5,1,6>>, <<3,8,2,7>>,
      <<1,6,2,7>>, <<2,8,3,6>>>>

\* B1C3 E7E6 H2H3 G8H6 C3B1 H6G8 G2G3 F8E7 G3G4 D7D6 B2B4 E7H4 F1G2 H4F2 E1F2 D8F6 F2G3
\* F6A1 G2B7 A1B1 B7C8 B1B4 C8E6 F7E6 G3H2 B4D2 D1D2 H7H5 D2D6 H5G4 D6E6 E8F7 E6G4 H8H3
\* G4H3 B8D7 H3H7 D7C5 H7G8 A8G8 A2A4 C5A4 C1D2 A4B6 H2G2 G7G5 D2G5 F7E6 G2F1 B6A4 G5F4
\* G8G1 F1G1 A7A5 F4C7 A4B2 C7A5 E6E5 C2C3 B2D1 A5B6 D1C3 H1H3 C3E2
ReductionScript ==
    <<<<2,1,3,3>>, <<5,7,5,6>>, <<8,2,8,3>>, <<7,8,8,6>>, <<3,3,2,1>>, <<8,6,7,8>>,
      <<7,2,7,3>>, <<6,8,5,7>>, <<7,3,7,4>>, <<4,7,4,6>>, <<2,2,2,4>>, <<5,7,8,4>>,
      <<6,1,7,2>>, <<8,4,6,2>>, <<5,1,6,2>>, <<4,8,6,6>>, <<6,2,7,3>>, <<6,6,1,1>>,
      <<7,2,2,7>>, <<1,1,2,1>>, <<2,7,3,8>>, <<2,1,2,4>>, <<3,8,5,6>>, <<6,7,5,6>>,
      <<7,3,8,2>>, <<2,4,4,2>>, <<4,1,4,2>>, <<8,7,8,5>>, <<4,2,4,6>>, <<8,5,7,4>>,
      <<4,6,5,6>>, <<5,8,6,7>>, <<5,6,7,4>>, <<8,8,8,3>>, <<7,4,8,3>>, <<2,8,4,7>>,
      <<8,3,8,7>>, <<4,7,3,5>>, <<8,7,7,8>>, <<1,8,7,8>>, <<1,2,1,4>>, <<3,5,1,4>>,
      <<3,1,4,2>>, <<1,4,2,6>>, <<8,2,7,2>>, <<7,7,7,5>>, <<4,2,7,5>>, <<6,7,5,6>>,
      <<7,2,6,1>>, <<2,6,1,4>>, <<7,5,6,4>>, <<7,8,7,1>>, <<6,1,7,1>>, <<1,7,1,5>>,
      <<6,4,3,7>>, <<1,4,2,2>>, <<3,7,1,5>>, <<5,6,5,5>>, <<3,2,3,3>>, <<2,2,4,1>>,
      <<1,5,2,6>>, <<4,1,3,3>>, <<8,1,8,3>>, <<3,3,5,2>>>>

\* G1F1 E5E4 H3F3 E2D4 B6D4
MaterialScript ==
    ReductionScript \o <<<<7,1,6,1>>, <<5,5,5,4>>, <<8,3,6,3>>, <<5,2,4,4>>, <<2,6,4,4>>>>

\* E4D4 F3D3 D4E4 D3D4 E4F3 F1E1 F3G2 D4D2 G2H1
StalemateScript ==
    MaterialScript \o <<<<5,4,4,4>>, <<6,3,4,3>>, <<4,4,5,4>>, <<4,3,4,4>>, <<5,4,6,3>>, <<6,1,5,1>>,
      <<6,3,7,2>>, <<4,4,4,2>>, <<7,2,8,1>>>>

\* E4D4 F3F2 D4C3 F1E2 C3B2 E2D1 B2A1
EdgeScript ==
    MaterialScript \o <<<<5,4,4,4>>, <<6,3,6,2>>, <<4,4,3,3>>, <<6,1,5,2>>, <<3,3,2,2>>, <<5,2,4,1>>,
      <<2,2,1,1>>>>

\* G1H3 B8C6 B1C3 C6B8 H3G5 B8A6 C3D5 G8F6 G5E6 F6G8 D5F4 A6B4 F4G6 G8F6 G6E5 B4D5 E6F4
\* D5E3 E5D3 F6G4 F4E6 E3C4 D3C5 C4A3 C5A4 A3C4 E6F4 C4B6 F4D5 G4H6 D5B4 H6G8 B4D3 B6C4
\* A4B6 G8F6 D3B4 C4E5 B4D3 F6H5 D3B4 E5C6 B4A6 C6B4 A6B8 B4C6 B6A4 C6E5 B8C6
QuietScript ==
    <<<<7,1,8,3>>, <<2,8,3,6>>, <<2,1,3,3>>, <<3,6,2,8>>, <<8,3,7,5>>, <<2,8,1,6>>,
      <<3,3,4,5>>, <<7,8,6,6>>, <<7,5,5,6>>, <<6,6,7,8>>, <<4,5,6,4>>, <<1,6,2,4>>,
      <<6,4,7,6>>, <<7,8,6,6>>, <<7,6,5,5>>, <<2,4,4,5>>, <<5,6,6,4>>, <<4,5,5,3>>,
      <<5,5,4,3>>, <<6,6,7,4>>, <<6,4,5,6>>, <<5,3,3,4>>, <<4,3,3,5>>, <<3,4,1,3>>,
      <<3,5,1,4>>, <<1,3,3,4>>, <<5,6,6,4>>, <<3,4,2,6>>, <<6,4,4,5>>, <<7,4,8,6>>,
      <<4,5,2,4>>, <<8,6,7,8>>, <<2,4,4,3>>, <<2,6,3,4>>, <<1,4,2,6>>, <<7,8,6,6>>,
      <<4,3,2,4>>, <<3,4,5,5>>, <<2,4,4,3>>, <<6,6,8,5>>, <<4,3,2,4>>, <<5,5,3,6>>,
      <<2,4,1,6>>, <<3,6,2,4>>, <<1,6,2,8>>, <<2,4,3,6>>, <<2,6,1,4>>, <<3,6,5,5>>,
      <<2,8,3,6>>>>

\* D2D4 D7D5 C1F4 C8F5 B1C3 B8C6 D1D2 D8D7 G1F3 G8F6
CastleScript ==
    <<<<4,2,4,4>>, <<4,7,4,5>>, <<3,1,6,4>>, <<3,8,6,5>>, <<2,1,3,3>>, <<2,8,3,6>>,
      <<4,1,4,2>>, <<4,8,4,7>>, <<7,1,6,3>>, <<7,8,6,6>>>>

\* C2C3 D7D6 D1A4
QueenScript ==
    <<<<3,2,3,3>>, <<4,7,4,6>>, <<4,1,1,4>>>>

\* E2E4 A7A6 E4E5 D7D5 G1F3 D8D6
StaleScript ==
    EnPassantScript \o <<<<7,1,6,3>>, <<4,8,4,6>>>>

\* E2E4
OffersScript ==
    <<<<5,2,5,4>>>>

\* A2A4 A7A6 A1A3 B7B6 A3H3 C7C6
RookScript ==
    <<<<1,2,1,4>>, <<1,7,1,6>>, <<1,1,1,3>>, <<2,7,2,6>>, <<1,3,8,3>>, <<3,7,3,6>>>>

\* H2H4 G7G5 H4G5 H7H6 G5H6 F8G7 H6G7 A7A6
KingsScript ==
    <<<<8,2,8,4>>, <<7,7,7,5>>, <<8,4,7,5>>, <<8,7,8,6>>, <<7,5,8,6>>, <<6,8,7,7>>,
      <<8,6,7,7>>, <<1,7,1,6>>>>

Scenarios ==
    {"opening", "mate", "check", "repetition", "en_passant", "promotion",
     "material", "stalemate", "edge", "quiet", "castle", "queen", "stale", "offers",
     "rook", "kings"}

Script(scenario) ==
    CASE scenario = "opening" -> OpeningScript
      [] scenario = "mate" -> MateScript
      [] scenario = "check" -> CheckScript
      [] scenario = "repetition" -> RepetitionScript
      [] scenario = "en_passant" -> EnPassantScript
      [] scenario = "promotion" -> PromotionScript
      [] scenario = "material" -> MaterialScript
      [] scenario = "stalemate" -> StalemateScript
      [] scenario = "edge" -> EdgeScript
      [] scenario = "quiet" -> QuietScript
      [] scenario = "castle" -> CastleScript
      [] scenario = "queen" -> QueenScript
      [] scenario = "stale" -> StaleScript
      [] scenario = "offers" -> OffersScript
      [] scenario = "rook" -> RookScript
      [] scenario = "kings" -> KingsScript

\* the colour that offers a takeback before the first move of the script is played
ScriptedOffer(scenario) == IF scenario = "offers" THEN Some("White") ELSE None

PromotionTags ==
    {ExtraNone, MoveCheck, Promotion("Queen"), Promotion("Knight"),
     Promotion("King"), Promotion("Pawn")}

Untagged(quads) == {Move(q, ExtraNone) : q \in quads}

\* the moves submitted once the script is played out
FreeMoves(scenario) ==
    CASE scenario = "opening" ->
            \* E2E4 E2E5 E7E5 E4E5 A1A2 G1F3 B8C6 D1H5
            Untagged({<<5,2,5,4>>, <<5,2,5,5>>, <<5,7,5,5>>, <<5,4,5,5>>,
                      <<1,1,1,2>>, <<7,1,6,3>>, <<2,8,3,6>>, <<4,1,8,5>>})
      [] scenario = "mate" ->
            \* D8H4 B8C6 E1F2 A8A7
            Untagged({<<4,8,8,4>>, <<2,8,3,6>>, <<5,1,6,2>>, <<1,8,1,7>>})
      [] scenario = "check" ->
            \* F1B5 A7A6 C7C6 G1F3
            Untagged({<<6,1,2,5>>, <<1,7,1,6>>, <<3,7,3,6>>, <<7,1,6,3>>})
      [] scenario = "repetition" ->
            \* F6G8 F6E4 A7A6
            Untagged({<<6,6,7,8>>, <<6,6,5,4>>, <<1,7,1,6>>})
      [] scenario = "en_passant" ->
            \* E5D6 E5E6 G1F3 F1A6
            Untagged({<<5,5,4,6>>, <<5,5,5,6>>, <<7,1,6,3>>, <<6,1,1,6>>})
      [] scenario = "promotion" ->
            \* B7A8 B7B8 with every tag, G1F3
            {Move(q, extra) : q \in {<<2,7,1,8>>, <<2,7,2,8>>}, extra \in PromotionTags}
            \cup Untagged({<<7,1,6,3>>})
      [] scenario = "material" ->
            \* E4F3 E4D4 E4E3 E4E5
            Untagged({<<5,4,6,3>>, <<5,4,4,4>>, <<5,4,5,3>>, <<5,4,5,5>>})
      [] scenario = "stalemate" ->
            \* E1F1 D2D1 H1H2
            Untagged({<<5,1,6,1>>, <<4,2,4,1>>, <<8,1,8,2>>})
      [] scenario = "edge" ->
            \* D1C1 F2F1 A1A2 A1B1
            Untagged({<<4,1,3,1>>, <<6,2,6,1>>, <<1,1,1,2>>, <<1,1,2,1>>})
      [] scenario = "quiet" ->
            \* E5C4 E5C6 A7A6 C6B8
            Untagged({<<5,5,3,4>>, <<5,5,3,6>>, <<1,7,1,6>>, <<3,6,2,8>>})
      [] scenario = "castle" ->
            \* E1C1 E1G1 E1D1 A1B1 E8C8 A7A6
            Untagged({<<5,1,3,1>>, <<5,1,7,1>>, <<5,1,4,1>>, <<1,1,2,1>>,
                      <<5,8,3,8>>, <<1,7,1,6>>})
      [] scenario = "queen" ->
            \* A7A6 C8D7 A4E8 B1A3
            Untagged({<<1,7,1,6>>, <<3,8,4,7>>, <<1,4,5,8>>, <<2,1,1,3>>})
      [] scenario = "stale" ->
            \* E5D6 E5E6 B1C3 C7D6
            Untagged({<<5,5,4,6>>, <<5,5,5,6>>, <<2,1,3,3>>, <<3,7,4,6>>})
      [] scenario = "offers" ->
            \* E7E5 E4E5
            Untagged({<<5,7,5,5>>, <<5,4,5,5>>})
      [] scenario = "rook" ->
            \* H3G3 H3H4 B1C3 A8A7 H8G8 H2H4
            Untagged({<<8,3,7,3>>, <<8,3,8,4>>, <<2,1,3,3>>, <<1,8,1,7>>, <<8,8,7,8>>,
                      <<8,2,8,4>>})
      [] scenario = "kings" ->
            \* G7H8 with every tag, G8F6
            {Move(<<7,7,8,8>>, extra) : extra \in PromotionTags}
            \cup Untagged({<<7,8,6,6>>})

\* operations after the script
MaxSteps == 2
\* length of an offer list
MaxOffers == 3

(***************************************************************************)
(* The state machine: one game, the last call made on it and what it       *)
(* returned.  overflow_checks is the build (debug-assertions on or off),   *)
(* fixed for a run.  input is the text a player has typed for a move or a  *)
(* square; it is empty while the game is driven by moves already parsed.   *)
(* lock is the holder of the GameManager write lock and sessions the       *)
(* requests being served concurrently, each with its position in its       *)
(* handler; there are none while the game is driven by direct calls.       *)
(***************************************************************************)
VARIABLES game, ret, call, overflow_checks, scenario, pos, steps, input, lock, sessions

vars == <<game, ret, call, overflow_checks, scenario, pos, steps, input, lock, sessions>>

Init ==
    /\ game = NewGame
    /\ ret = Ok(Unit)
    /\ call = "default"
    /\ overflow_checks \in BOOLEAN
    /\ scenario \in Scenarios
    /\ pos = 0
    /\ steps = 0
    /\ input = <<>>
    /\ lock = None
    /\ sessions = <<>>

Scripted == pos < Len(Script(scenario))

Returns(name, outcome) ==
    /\ game' = outcome.game
    /\ ret' = outcome.ret
    /\ call' = name
    /\ UNCHANGED <<overflow_checks, scenario, input, lock, sessions>>

FreeStep ==
    /\ ~Scripted
    /\ steps < MaxSteps
    /\ steps' = steps + 1
    /\ pos' = pos

MakeMove ==
    /\ \E m \in (IF Scripted
                 THEN {Move(Script(scenario)[pos + 1], ExtraNone)}
                 ELSE FreeMoves(scenario)) :
          \E outcome \in MakeMoveOutcomes(game, m, overflow_checks) :
              Returns("make_move", outcome)
    /\ IF Scripted
       THEN pos' = pos + 1 /\ steps' = steps
       ELSE FreeStep

TakebackMove ==
    /\ FreeStep
    /\ Returns("takeback_move", takeback_move(game))

Draw ==
    /\ FreeStep
    /\ Returns("draw", draw(game))

Resign ==
    /\ FreeStep
    /\ \E color \in Colors : Returns("resign", resign(game, color))

OfferDraw ==
    /\ FreeStep
    /\ Len(game.state.draw_offers) < MaxOffers
    /\ \E color \in Colors : Returns("offer_draw", offer_draw(game, color))

OfferTakeback ==
    /\ Len(game.state.takeback_offers) < MaxOffers
    /\ IF Scripted
       THEN /\ pos = 0
            /\ IsSome(ScriptedOffer(scenario))
            /\ game.state.takeback_offers = <<>>
            /\ Returns("offer_takeback", offer_takeback(game, Unwrap(ScriptedOffer(scenario))))
            /\ UNCHANGED <<pos, steps>>
       ELSE /\ FreeStep
            /\ \E color \in Colors : Returns("offer_takeback", offer_takeback(game, color))

GetValidMoves ==
    /\ FreeStep
    /\ \E outcome \in ListValidMoves(game, overflow_checks) :
          Returns("get_valid_moves_for", outcome)

Next ==
    \/ MakeMove
    \/ TakebackMove
    \/ Draw
    \/ Resign
    \/ OfferDraw
    \/ OfferTakeback
    \/ GetValidMoves

Spec == Init /\ [][Next]_vars

(***************************************************************************)
(* Typed input.  The move command of the Discord bot parses its argument   *)
(* with NewMove::from_str and submits the move to the game; the WebSocket  *)
(* protocol parses squares with Square::from_str.  The texts are the       *)
(* strings of at most MaxChars characters over a small alphabet: e, E, i,  *)
(* 2, 4, 9, the two-byte U+00E9 and the three-byte U+20AC.                 *)
(***************************************************************************)
MaxChars == 4

Alphabet ==
    {<<101>>, <<69>>, <<105>>, <<50>>, <<52>>, <<57>>, <<195, 169>>, <<226, 130, 172>>}

RECURSIVE Texts(_)
Texts(n) ==
    IF n = 0
    THEN {<<>>}
    ELSE Texts(n - 1) \cup {Append(s, c) : s \in Texts(n - 1), c \in Alphabet}

ParseInit ==
    /\ game = NewGame
    /\ ret = Ok(Unit)
    /\ call = "default"
    /\ overflow_checks = FALSE
    /\ scenario = "opening"
    /\ pos = 0
    /\ steps = 0
    /\ input \in Texts(MaxChars)
    /\ lock = None
    /\ sessions = <<>>

\* a square is written out and becomes the text to parse
FormatSquare ==
    /\ call = "default"
    /\ input = <<>>
    /\ \E square \in ValidSquares : input' = Square_to_string(square)
    /\ call' = "to_string"
    /\ UNCHANGED <<game, ret, overflow_checks, scenario, pos, steps, lock, sessions>>

ParseSquare ==
    /\ call \in {"default", "to_string"}
    /\ call' = "Square::from_str"
    /\ ret' = Square_from_str(input)
    /\ UNCHANGED <<game, overflow_checks, scenario, pos, steps, input, lock, sessions>>

ParseMove ==
    /\ call = "default"
    /\ call' = "NewMove::from_str"
    /\ ret' = NewMove_from_str(input)
    /\ UNCHANGED <<game, overflow_checks, scenario, pos, steps, input, lock, sessions>>

\* the command submits the move it has parsed
SubmitParsed ==
    /\ call = "NewMove::from_str"
    /\ ret.status = "Ok"
    /\ steps < MaxSteps
    /\ steps' = steps + 1
    /\ pos' = pos
    /\ Returns("make_move", make_move(game, ret.value))

ParseNext ==
    \/ FormatSquare
    \/ ParseSquare
    \/ ParseMove
    \/ SubmitParsed

ParseSpec == ParseInit /\ [][ParseNext]_vars

(***************************************************************************)
(* Concurrent requests.  Every command of the Discord bot and every packet *)
(* of a WebSocket session takes the write lock of the GameManager, looks   *)
(* the game up, makes its checks and its call on the game and drops the    *)
(* guard when the handler returns.  Two requests are served at a time.     *)
(* make_move is taken in two steps, the attempt on the cloned board and    *)
(* the replacement of the state, so that an interleaving inside the call   *)
(* would show.                                                             *)
(***************************************************************************)
Sessions == {1, 2}

\* op is the call on the game; checked tells whether the handler compares the
\* sender with the side to move first (make_move in discord/commands/game.rs and
\* handle_make_move in http/proto.rs do, force_move in admin.rs does not)
Request(op, checked, color, m) == [op |-> op, checked |-> checked, color |-> color, m |-> m]

NoMove == Move(<<1, 1, 1, 1>>, ExtraNone)

Requests ==
    {\* game move E2E4 by White, packet make_move D2->D4 by White, game move E7E5 by Black
     Request("make_move", TRUE, "White", Move(<<5,2,5,4>>, ExtraNone)),
     Request("make_move", TRUE, "White", Move(<<4,2,4,4>>, Promotion("Queen"))),
     Request("make_move", TRUE, "Black", Move(<<5,7,5,5>>, ExtraNone)),
     \* admin force_move E7E5
     Request("make_move", FALSE, "Black", Move(<<5,7,5,5>>, ExtraNone)),
     \* game draw / packet offer_draw
     Request("offer_draw", FALSE, "White", NoMove),
     Request("offer_draw", FALSE, "Black", NoMove),
     \* game takeback / packet offer_takeback
     Request("offer_takeback", FALSE, "White", NoMove),
     Request("offer_takeback", FALSE, "Black", NoMove),
     \* game resign / packet resign / admin force_resign
     Request("resign", FALSE, "White", NoMove),
     \* admin force_draw, force_takeback
     Request("draw", FALSE, "White", NoMove),
     Request("takeback_move", FALSE, "White", NoMove)}

NewSession(request) == [pc |-> "start", request |-> request, attempt |-> None, answer |-> None]

ServeInit ==
    /\ game = NewGame
    /\ ret = Ok(Unit)
    /\ call = "default"
    /\ overflow_checks = FALSE
    /\ scenario = "opening"
    /\ pos = 0
    /\ steps = 0
    /\ input = <<>>
    /\ lock = None
    /\ sessions \in [Sessions -> {NewSession(request) : request \in Requests}]

\* faulty variant of Acquirable: the lock is handed out while it is held
AcquirableAlways(holder) == TRUE

\* RwLock::write resolves only while nobody holds the lock
Acquirable(holder) == holder = None

\* GameManager::get_game: concluded games are removed before the lookup
get_game(chess_game) == IF IsSome(chess_game.result) THEN None ELSE Some(chess_game)

\* the call of a request that is not make_move
SimpleCall(chess_game, request) ==
    CASE request.op = "offer_draw" -> offer_draw(chess_game, request.color)
      [] request.op = "offer_takeback" -> offer_takeback(chess_game, request.color)
      [] request.op = "resign" -> resign(chess_game, request.color)
      [] request.op = "draw" -> draw(chess_game)
      [] request.op = "takeback_move" -> takeback_move(chess_game)

Answered(s, answer) ==
    sessions' = [sessions EXCEPT ![s].pc = "answered", ![s].answer = Some(answer)]

ServeFrame == UNCHANGED <<overflow_checks, scenario, pos, steps, input>>

AcquireWriteLock(s) ==
    /\ sessions[s].pc = "start"
    /\ Acquirable(lock)
    /\ lock' = Some(s)
    /\ sessions' = [sessions EXCEPT ![s].pc = "locked"]
    /\ UNCHANGED <<game, ret, call>>
    /\ ServeFrame

\* the lookup of the game and, for a player's move, the comparison with the side to move
LookUp(s) ==
    /\ sessions[s].pc = "locked"
    /\ IF get_game(game) = None
       THEN Answered(s, Err("NoGame"))
       ELSE IF sessions[s].request.checked
               /\ game.state.current_turn # sessions[s].request.color
       THEN Answered(s, Err("NotYourMove"))
       ELSE sessions' = [sessions EXCEPT ![s].pc = "found"]
    /\ UNCHANGED <<game, ret, call, lock>>
    /\ ServeFrame

\* Game::make_move up to the test of the cloned board (lines 121-136)
AttemptMove(s) ==
    /\ sessions[s].pc = "found"
    /\ sessions[s].request.op = "make_move"
    /\ IF \/ IsSome(game.result)
          \/ get_piece(game.state.board, sessions[s].request.m.from) = None
          \/ Unwrap(get_piece(game.state.board, sessions[s].request.m.from)).color
                 # game.state.current_turn
       THEN /\ Answered(s, make_move(game, sessions[s].request.m).ret)
            /\ call' = "make_move"
            /\ ret' = make_move(game, sessions[s].request.m).ret
       ELSE /\ sessions' = [sessions EXCEPT
                    ![s].pc = "attempted",
                    ![s].attempt = Some(make_move_if_valid(game.state.board,
                                                           sessions[s].request.m))]
            /\ UNCHANGED <<ret, call>>
    /\ UNCHANGED <<game, lock>>
    /\ ServeFrame

\* Game::make_move from the result of the attempt on (lines 138-182)
FinishAttempt(s) ==
    /\ sessions[s].pc = "attempted"
    /\ game' = AfterAttempt(game, Unwrap(sessions[s].attempt)).game
    /\ ret' = AfterAttempt(game, Unwrap(sessions[s].attempt)).ret
    /\ call' = "make_move"
    /\ Answered(s, AfterAttempt(game, Unwrap(sessions[s].attempt)).ret)
    /\ UNCHANGED lock
    /\ ServeFrame

CallGame(s) ==
    /\ sessions[s].pc = "found"
    /\ sessions[s].request.op # "make_move"
    /\ game' = SimpleCall(game, sessions[s].request).game
    /\ ret' = SimpleCall(game, sessions[s].request).ret
    /\ call' = sessions[s].request.op
    /\ Answered(s, SimpleCall(game, sessions[s].request).ret)
    /\ UNCHANGED lock
    /\ ServeFrame

\* the guard is dropped when the handler returns
ReleaseWriteLock(s) ==
    /\ sessions[s].pc = "answered"
    /\ lock' = None
    /\ sessions' = [sessions EXCEPT ![s].pc = "done"]
    /\ UNCHANGED <<game, ret, call>>
    /\ ServeFrame

ServeNext ==
    \E s \in Sessions :
        \/ AcquireWriteLock(s)
        \/ LookUp(s)
        \/ AttemptMove(s)
        \/ FinishAttempt(s)
        \/ CallGame(s)
        \/ ReleaseWriteLock(s)

ServeSpec == ServeInit /\ [][ServeNext]_vars

(***************************************************************************)
(* Properties                                                              *)
(***************************************************************************)
Rejected(r) == r.status = "Err"

RejectedWith(r, reason) == r.status = "Err" /\ r.value = reason

Accepted(r) == r.status = "Ok"

\* C1: a make_move that returns a failure leaves the whole game (board, side
\* to move, half-move clock, offer lists, history and result) as it was
C1_RejectedMoveChangesNothing ==
    [][(call' = "make_move" /\ Rejected(ret')) => game' = game]_vars

\* a move was rejected at the last test of make_move, after the clone had been moved on
C1_Witness ==
    /\ call = "make_move"
    /\ RejectedWith(ret, "InCheckAfterTurn")
    /\ scenario = "promotion"

\* the attempts get_valid_moves_for makes on a board, and the moves submitted
ProbedMoves(board) ==
    UNION {{NewMove(piece.location, valid_move, MoveCheck) :
               valid_move \in piece.valid_moves} : piece \in Pieces(board)}

FailedAttemptLeavesBoard ==
    \A m \in ProbedMoves(game.state.board) \cup FreeMoves(scenario) :
        LET r == make_move_if_valid(game.state.board, m)
        IN  r.err # None => r.board = game.state.board

\* C2: make_move_if_valid leaves the board (placement, castling rights, en-passant
\* target, last move, highlighted squares) as it was whenever it fails, and listing
\* the valid moves leaves the board it is asked about as it was
C2_FailedOrProbingAttemptKeepsBoard ==
    /\ FailedAttemptLeavesBoard
    /\ \A listing \in ListValidMoves(game, overflow_checks) :
          listing.game.state.board = game.state.board

\* make_move_if_valid failed at its last test, on a game that has moved on
C2_Witness ==
    /\ call = "make_move"
    /\ RejectedWith(ret, "CannotCaptureOwnPiece")
    /\ Len(game.state_history) > 0

GameOperations ==
    {"make_move", "resign", "offer_draw", "offer_takeback", "takeback_move", "draw"}

\* C3: once the result is set every operation returns GameEnded and the game
\* never changes again
C3_TerminalResultIsFinal ==
    [][IsSome(game.result) =>
          /\ game' = game
          /\ (call' \in GameOperations => RejectedWith(ret', "GameEnded"))]_vars

\* a takeback was refused on a game that ended in checkmate
C3_Witness ==
    /\ game.result = Some(CheckMate("White"))
    /\ call = "takeback_move"
    /\ RejectedWith(ret, "GameEnded")

SamePosition(state, other) ==
    /\ BoardStateEq(state.board.state, other.board.state)
    /\ state.current_turn = other.current_turn
    /\ state.half_move_clock = other.half_move_clock

\* C4: in an ongoing game, a move that is accepted without ending the game and
\* is then taken back leaves the BoardState, the side to move and the half-move
\* clock of before the move
C4_MoveThenTakebackRestores ==
    game.result = None =>
        \A m \in FreeMoves(scenario) :
            \A moved \in MakeMoveOutcomes(game, m, overflow_checks) :
                (Accepted(moved.ret) /\ moved.game.result = None) =>
                    LET taken == takeback_move(moved.game)
                    IN  /\ Accepted(taken.ret)
                        /\ SamePosition(taken.game.state, game.state)

\* an en-passant capture was taken back
C4_Witness ==
    /\ scenario = "en_passant"
    /\ call = "takeback_move"
    /\ Accepted(ret)
    /\ steps = 2
    /\ Len(game.state_history) = Len(Script(scenario))
    /\ get_piece(game.state.board, Square(4, 5)) # None

\* C5: a move that would leave the mover's king attacked is rejected with
\* InCheckAfterTurn, so the side that is not to move is never in check
C5_MoverNeverLeftInCheck ==
    /\ ~is_in_check(game.state.board, get_opposite(game.state.current_turn))
    /\ game.result = None =>
          \A m \in FreeMoves(scenario) :
              LET r == make_move_if_valid(game.state.board, m)
              IN  (/\ get_piece(game.state.board, m.from) # None
                   /\ Unwrap(get_piece(game.state.board, m.from)).color
                          = game.state.current_turn
                   /\ r.err = None
                   /\ is_in_check(r.board, game.state.current_turn)) =>
                      \A moved \in MakeMoveOutcomes(game, m, overflow_checks) :
                          \/ RejectedWith(moved.ret, "InCheckAfterTurn")
                          \/ moved.ret.status = "Panic"

\* a move that ignored a bishop's check was rejected
C5_Witness ==
    /\ scenario = "check"
    /\ call = "make_move"
    /\ RejectedWith(ret, "InCheckAfterTurn")
    /\ is_in_check(game.state.board, game.state.current_turn)

\* the squares get_valid_moves_for_piece lists for the piece
ListedSquares(board, piece) ==
    {listed.to : listed \in get_valid_moves_for_piece(board, piece)}

\* the squares make_move accepts for the piece with every tag a caller may choose
AcceptedSquares(game_, piece, choices) ==
    {to \in ValidSquares :
        \A extra \in (IF piece.piece_type = "Pawn" /\ rank_number(to) \in {1, 8}
                      THEN choices ELSE {ExtraNone}) :
            Accepted(make_move(game_, NewMove(piece.location, to, extra)).ret)}

\* C6: in an ongoing game, for every piece of the side to move and every square,
\* make_move succeeds (with a promotion choice for a pawn landing on the final
\* rank) exactly if get_valid_moves_for_piece lists a move to that square
C6_ListingAgreesWithSubmission ==
    (game.result = None /\ ~overflow_checks) =>
        \A piece \in Pieces(game.state.board) :
            piece.color = game.state.current_turn =>
                AcceptedSquares(game, piece, {Promotion(t) : t \in Types})
                    = ListedSquares(game.state.board, piece)

NoValidMoves(game_) == get_valid_moves_for(game_.state.board, game_.state.current_turn) = {}

InCheck(game_) == is_in_check(game_.state.board, game_.state.current_turn)

\* C7: after a successful make_move the result is CheckMate(c) exactly if c is
\* the side to move, has no valid move and is in check, and Stalemated exactly if
\* the side to move has no valid move and is not in check
C7_MateAndStalemateDetected ==
    (call = "make_move" /\ Accepted(ret)) =>
        /\ \A c \in Colors :
              game.result = Some(CheckMate(c))
                  <=> (c = game.state.current_turn /\ NoValidMoves(game) /\ InCheck(game))
        /\ game.result = Some(Stalemated) <=> (NoValidMoves(game) /\ ~InCheck(game))

\* a rook and king left the bare king without a move and not in check
C7_Witness ==
    /\ call = "make_move"
    /\ Accepted(ret)
    /\ game.result = Some(Stalemated)
    /\ scenario = "stalemate"

\* how many times the current BoardState has occurred: now, and in the history
Occurrences(game_) ==
    1 + Cardinality({i \in 1..Len(game_.state_history) :
                        BoardStateEq(game_.state.board.state,
                                     game_.state_history[i].board.state)})

\* C8: a successful move sets the result to ThreefoldRepetition exactly when it
\* brings about a BoardState for the third time (no earlier condition applying),
\* and not on the first or second occurrence
C8_ThreefoldOnThirdOccurrence ==
    (call = "make_move" /\ Accepted(ret)) =>
        /\ game.result = Some(ThreefoldRepetition)
              <=> /\ Occurrences(game) >= 3
                  /\ ~NoValidMoves(game)
                  /\ ~check_for_insufficient_material(game)
        /\ Occurrences(game) < 3 => game.result # Some(ThreefoldRepetition)

\* the knights went out and back twice
C8_Witness ==
    /\ call = "make_move"
    /\ Accepted(ret)
    /\ game.result = Some(ThreefoldRepetition)
    /\ Occurrences(game) = 3

\* the moves played to reach the current position, oldest first
MovesPlayed(game_) ==
    [i \in 1..Len(game_.state_history) |->
        Unwrap((IF i = Len(game_.state_history)
                THEN game_.state.board
                ELSE game_.state_history[i + 1].board).last_move)]

IsQuiet(move) == ~move.capture /\ move.piece_type # "Pawn"

\* the number of moves since the last capture or pawn move
QuietRun(game_) ==
    LET played == MovesPlayed(game_)
        loud == {i \in 1..Len(played) : ~IsQuiet(played[i])}
    IN  Len(played) - (IF loud = {} THEN 0 ELSE CHOOSE i \in loud : \A j \in loud : j <= i)

\* C9: 50 consecutive successful half-moves without capture or pawn move, no
\* earlier condition applying, set the result to FiftyMoves; a capture or a pawn
\* move sets the counter to zero, and the rule does not trigger before
C9_FiftyMoveRule ==
    (call = "make_move" /\ Accepted(ret)) =>
        /\ (/\ QuietRun(game) >= FiftyMoveLimit
            /\ ~NoValidMoves(game)
            /\ ~check_for_insufficient_material(game)
            /\ Occurrences(game) < 3) => game.result = Some(FiftyMoves)
        /\ ~IsQuiet(ret.value) => game.state.half_move_clock = 0
        /\ QuietRun(game) < FiftyMoveLimit => game.result # Some(FiftyMoves)

\* counts of one colour's pieces, per type
MaxCount == 3

CountVectors == [Types \ {"King"} -> 0..MaxCount]

\* the pieces of a colour, counted from the board
CountOf(board, color) ==
    [t \in Types |->
        Cardinality({piece \in Pieces(board) : piece.color = color /\ piece.piece_type = t})]

\* no rook, queen or pawn, fewer than 2 bishops, fewer than 3 knights, and not
\* both a bishop and a knight
LacksMaterial(count) ==
    /\ count["Rook"] = 0 /\ count["Queen"] = 0 /\ count["Pawn"] = 0
    /\ count["Bishop"] < 2
    /\ count["Knight"] < 3
    /\ ~(count["Bishop"] >= 1 /\ count["Knight"] >= 1)

\* C10: check_for_insufficient_material is true exactly if each side lacks
\* material; a successful move that leaves the side to move a valid move sets
\* the result to InsufficientMaterial exactly then (king and bishop against king
\* does, king and rook against king does not)
C10_InsufficientMaterial ==
    /\ \A count \in CountVectors : ~SufficientCounts(count) <=> LacksMaterial(count)
    /\ check_for_insufficient_material(game)
          <=> \A color \in Colors : LacksMaterial(CountOf(game.state.board, color))
    /\ (call = "make_move" /\ Accepted(ret) /\ ~NoValidMoves(game)) =>
          (game.result = Some(InsufficientMaterial)
              <=> \A color \in Colors : LacksMaterial(CountOf(game.state.board, color)))

\* the black king took the rook: king and bishop against king
C10_Witness ==
    /\ call = "make_move"
    /\ Accepted(ret)
    /\ game.result = Some(InsufficientMaterial)
    /\ CountOf(game.state.board, "White")
          = [t \in Types |-> IF t \in {"King", "Bishop"} THEN 1 ELSE 0]
    /\ CountOf(game.state.board, "Black") = [t \in Types |-> IF t = "King" THEN 1 ELSE 0]

\* the moves a caller submits in the current state
NextMoves ==
    IF Scripted THEN {Move(Script(scenario)[pos + 1], ExtraNone)} ELSE FreeMoves(scenario)

\* the number of pieces on the board
PieceCount(board) == Cardinality(Pieces(board))

\* what an accepted move from->to by `mover` leaves in `after` and returns in `record`
MoveEffects(before, mover, m, after, record) ==
    /\ after.state.current_turn = get_opposite(before.state.current_turn)
    /\ after.state.board.highlighted_squares = <<m.from, m.to>>
    /\ after.state.draw_offers = <<>>
    /\ after.state.takeback_offers = <<>>
    /\ record.piece_color = before.state.current_turn
    /\ record.piece_color = mover.color
    /\ record.piece_type = mover.piece_type
    /\ record.from = m.from
    /\ record.to = m.to
    /\ record.capture <=> PieceCount(after.state.board) < PieceCount(before.state.board)
    /\ after.state.board.last_move = Some(record)

\* C11: after every successful make_move(from, to, extra) the side to move is the
\* opposite colour, the highlighted squares are from and to, both offer lists are
\* empty, and the returned record carries the mover's colour and type, from, to
\* and the capture flag
C11_AcceptedMoveEffects ==
    \A m \in NextMoves :
        \A outcome \in MakeMoveOutcomes(game, m, overflow_checks) :
            Accepted(outcome.ret) =>
                MoveEffects(game, Unwrap(get_piece(game.state.board, m.from)), m,
                            outcome.game, outcome.ret.value)

\* E2E4 from the start: Black to move, clock 0, E2 and E4 highlighted
C11_Witness ==
    /\ call = "make_move"
    /\ Accepted(ret)
    /\ Len(game.state_history) = 1
    /\ ret.value = HistoryMove("White", "Pawn", Square(5, 2), Square(5, 4), FALSE, ExtraNone)
    /\ game.state.current_turn = "Black"
    /\ game.state.half_move_clock = 0
    /\ game.state.board.highlighted_squares = <<Square(5, 2), Square(5, 4)>>
    /\ game.state.draw_offers = <<>>
    /\ game.state.takeback_offers = <<>>

\* castling, stated from the rules of the game
CastleSides == {"short", "long"}

\* the file of the rook's home corner, of the king's landing square and of the
\* square the king crosses (where the rook lands)
RookHomeFile(side) == IF side = "short" THEN 8 ELSE 1

KingLandingFile(side) == IF side = "short" THEN 7 ELSE 3

KingCrossedFile(side) == IF side = "short" THEN 6 ELSE 4

\* the files strictly between king and rook
FilesBetween(side) == IF side = "short" THEN {6, 7} ELSE {2, 3, 4}

KingHome(color) == Square(5, InitialRank(color))

\* the king's two-file move toward the rook of that side
CastlingMove(color, side) ==
    NewMove(KingHome(color), Square(KingLandingFile(side), InitialRank(color)), ExtraNone)

HoldsPiece(board, square, color, piece_type) ==
    /\ IsSome(get_piece(board, square))
    /\ Unwrap(get_piece(board, square)).color = color
    /\ Unwrap(get_piece(board, square)).piece_type = piece_type

RightsFlag(board, color, side) ==
    IF side = "short"
    THEN get_castling_rights_for(board.state, color).short_castle
    ELSE get_castling_rights_for(board.state, color).long_castle

KingAndRookAtHome(board, color, side) ==
    /\ HoldsPiece(board, KingHome(color), color, "King")
    /\ HoldsPiece(board, Square(RookHomeFile(side), InitialRank(color)), color, "Rook")

SquaresBetweenEmpty(board, color, side) ==
    \A file \in FilesBetween(side) : get_piece(board, Square(file, InitialRank(color))) = None

\* the king's square, the square it crosses and the square it lands on are not
\* attacked by the opponent
KingPathSafe(board, color, side) ==
    \A file \in {5, KingCrossedFile(side), KingLandingFile(side)} :
        ~is_attacked(board, Square(file, InitialRank(color)), Some(get_opposite(color)))

MayCastle(board, color, side) ==
    /\ RightsFlag(board, color, side)
    /\ KingAndRookAtHome(board, color, side)
    /\ SquaresBetweenEmpty(board, color, side)
    /\ KingPathSafe(board, color, side)

\* the board after castling: king and rook relocated, the colour's rights gone
Castled(board, color, side) ==
    /\ HoldsPiece(board, Square(KingLandingFile(side), InitialRank(color)), color, "King")
    /\ HoldsPiece(board, Square(KingCrossedFile(side), InitialRank(color)), color, "Rook")
    /\ get_piece(board, KingHome(color)) = None
    /\ get_piece(board, Square(RookHomeFile(side), InitialRank(color))) = None
    /\ ~RightsFlag(board, color, "short")
    /\ ~RightsFlag(board, color, "long")

\* C12: when the mover may castle on a side (rights flag set, king and rook at
\* home, nothing between them, king's square, crossed square and landing square
\* not attacked), make_move of the king two files toward that rook succeeds, the
\* rook lands on the crossed square and both rights flags of the colour are false
C12_CastlingAccepted ==
    game.result = None =>
        \A side \in CastleSides :
            MayCastle(game.state.board, game.state.current_turn, side) =>
                \A outcome \in MakeMoveOutcomes(game,
                                   CastlingMove(game.state.current_turn, side),
                                   overflow_checks) :
                    /\ Accepted(outcome.ret)
                    /\ Castled(outcome.game.state.board, game.state.current_turn, side)

\* the move of a king two files toward the rook of a side, from where it stands
TwoFileKingMove(king, side) ==
    NewMove(king.location,
            Square(file_number(king.location) + (IF side = "short" THEN 2 ELSE -2),
                   rank_number(king.location)),
            ExtraNone)

\* the two-file king moves of the side to move that stay on the board and that the
\* rules do not allow as a castle
UnsafeCastles(game_) ==
    {m \in {TwoFileKingMove(king, side) :
                king \in Kings(game_.state.board, game_.state.current_turn),
                side \in {s \in CastleSides :
                             ~MayCastle(game_.state.board, game_.state.current_turn, s)}} :
        is_valid(m.to)}

\* C13: a two-file lateral king move is never accepted if the rights flag of that
\* side is cleared, the king's square, the crossed square or the landing square
\* is attacked, the rook is not on its home corner or a square between king and
\* rook is occupied
C13_UnsafeCastlingRejected ==
    \A m \in UnsafeCastles(game) :
        \A outcome \in MakeMoveOutcomes(game, m, overflow_checks) :
            ~Accepted(outcome.ret)

\* E1G1 with the bishop still on f1 was submitted and refused
C13_Witness ==
    /\ call = "make_move"
    /\ RejectedWith(ret, "MoveInvalid")
    /\ scenario = "castle"
    /\ game.state.current_turn = "White"
    /\ RightsFlag(game.state.board, "White", "short")
    /\ ~SquaresBetweenEmpty(game.state.board, "White", "short")
    /\ CastlingMove("White", "short") \in UnsafeCastles(game)
    /\ RejectedWith(make_move(game, CastlingMove("White", "short")).ret, "MoveInvalid")

\* colour and type of the piece on a square, if any
PlacementAt(board, square) ==
    IF get_piece(board, square) = None
    THEN None
    ELSE Some(<<Unwrap(get_piece(board, square)).color,
                Unwrap(get_piece(board, square)).piece_type>>)

\* the move is a pawn of the side to move stepping diagonally onto the
\* en-passant target
OntoEnPassantTarget(game_, m) ==
    /\ HoldsPiece(game_.state.board, m.from, game_.state.current_turn, "Pawn")
    /\ game_.state.board.state.en_passant_square = Some(m.to)
    /\ file_number(m.from) # file_number(m.to)

\* the square of the pawn an en-passant capture takes
VictimSquare(m) == Square(file_number(m.to), rank_number(m.from))

\* the last move played on the board was an enemy pawn's double step to `square`
JustDoubleStepped(board, square, color) ==
    /\ HoldsPiece(board, square, color, "Pawn")
    /\ IsSome(board.last_move)
    /\ Unwrap(board.last_move).piece_type = "Pawn"
    /\ Unwrap(board.last_move).piece_color = color
    /\ Unwrap(board.last_move).to = square
    /\ Abs(rank_number(Unwrap(board.last_move).to)
             - rank_number(Unwrap(board.last_move).from)) = 2

\* the capturing pawn stands on the target, the victim is gone, nothing else changed
EnPassantTaken(before, m, after) ==
    /\ get_piece(before, m.to) = None
    /\ PlacementAt(after, m.to) = PlacementAt(before, m.from)
    /\ get_piece(after, m.from) = None
    /\ get_piece(after, VictimSquare(m)) = None
    /\ \A square \in ValidSquares \ {m.from, m.to, VictimSquare(m)} :
          PlacementAt(after, square) = PlacementAt(before, square)

\* C14: a pawn move onto the en-passant target is accepted only if an enemy pawn
\* that just made the double step stands beside the capturing pawn on the
\* target's file; the move removes exactly that pawn, leaves the capturing pawn
\* on the target and is recorded as a capture
C14_EnPassantCapture ==
    \A m \in NextMoves :
        OntoEnPassantTarget(game, m) =>
            \A outcome \in MakeMoveOutcomes(game, m, overflow_checks) :
                Accepted(outcome.ret) =>
                    /\ JustDoubleStepped(game.state.board, VictimSquare(m),
                                         get_opposite(game.state.current_turn))
                    /\ EnPassantTaken(game.state.board, m, outcome.game.state.board)
                    /\ outcome.ret.value.capture

\* the last move played on the board was a pawn's two-square advance
LastMoveWasDoubleStep(board) ==
    /\ IsSome(board.last_move)
    /\ Unwrap(board.last_move).piece_type = "Pawn"
    /\ Abs(rank_number(Unwrap(board.last_move).to)
             - rank_number(Unwrap(board.last_move).from)) = 2

\* the square a double step passed over
SkippedSquare(move) ==
    Square(file_number(move.from), (rank_number(move.from) + rank_number(move.to)) \div 2)

\* C15: the en-passant target is set exactly if the move just played was a pawn's
\* two-square advance, and is then the skipped square; after any other move it is
\* none, so a capture en passant is accepted only on the ply after the double step
C15_EnPassantTargetOnePly ==
    /\ IF LastMoveWasDoubleStep(game.state.board)
       THEN game.state.board.state.en_passant_square
                = Some(SkippedSquare(Unwrap(game.state.board.last_move)))
       ELSE game.state.board.state.en_passant_square = None
    /\ \A m \in NextMoves :
          (/\ OntoEnPassantTarget(game, m)
           /\ \E outcome \in MakeMoveOutcomes(game, m, overflow_checks) :
                 Accepted(outcome.ret))
              => LastMoveWasDoubleStep(game.state.board)

\* the move is a pawn of the side to move landing on rank 1 or rank 8
OntoFinalRank(game_, m) ==
    /\ HoldsPiece(game_.state.board, m.from, game_.state.current_turn, "Pawn")
    /\ rank_number(m.to) \in {1, 8}

\* a pawn stands on rank 1 or rank 8
PawnOnFinalRank(board) ==
    \E piece \in Pieces(board) :
        piece.piece_type = "Pawn" /\ rank_number(piece.location) \in {1, 8}

\* C16: a pawn move onto rank 1 or 8 submitted without a promotion choice fails
\* with MoveInvalid; submitted with Promotion(T) and accepted, it leaves a piece
\* of type T and the mover's colour on the destination; no pawn ever stands on
\* rank 1 or rank 8
C16_Promotion ==
    /\ \A m \in NextMoves :
          OntoFinalRank(game, m) =>
              \A outcome \in MakeMoveOutcomes(game, m, overflow_checks) :
                  /\ m.extra = ExtraNone =>
                        (game.result = None => RejectedWith(outcome.ret, "MoveInvalid"))
                  /\ (m.extra # ExtraNone /\ m.extra # MoveCheck /\ Accepted(outcome.ret)) =>
                        HoldsPiece(outcome.game.state.board, m.to,
                                   game.state.current_turn, m.extra[2])
    /\ ~PawnOnFinalRank(game.state.board)

\* attack by the movement rules of the pieces, enumerated square by square
Sign(x) == IF x < 0 THEN -1 ELSE IF x > 0 THEN 1 ELSE 0

FileStep(from, to) == file_number(to) - file_number(from)

RankStep(from, to) == rank_number(to) - rank_number(from)

Distance(from, to) ==
    IF Abs(FileStep(from, to)) > Abs(RankStep(from, to))
    THEN Abs(FileStep(from, to))
    ELSE Abs(RankStep(from, to))

OnLine(from, to) == from # to /\ (FileStep(from, to) = 0 \/ RankStep(from, to) = 0)

OnDiagonal(from, to) == from # to /\ Abs(FileStep(from, to)) = Abs(RankStep(from, to))

\* the squares strictly between two squares of one rank, file or diagonal
StrictlyBetween(from, to) ==
    {s \in ValidSquares :
        /\ OnLine(from, s) \/ OnDiagonal(from, s)
        /\ Sign(FileStep(from, s)) = Sign(FileStep(from, to))
        /\ Sign(RankStep(from, s)) = Sign(RankStep(from, to))
        /\ Distance(from, s) < Distance(from, to)}

Unobstructed(board, from, to) ==
    \A s \in StrictlyBetween(from, to) : get_piece(board, s) = None

\* the piece can capture on the target square by the rules of the game
Reaches(board, piece, target) ==
    CASE piece.piece_type = "Knight" ->
            {Abs(FileStep(piece.location, target)), Abs(RankStep(piece.location, target))}
                = {1, 2}
      [] piece.piece_type = "King" -> Distance(piece.location, target) = 1
      [] piece.piece_type = "Pawn" ->
            /\ Abs(FileStep(piece.location, target)) = 1
            /\ RankStep(piece.location, target) = (IF piece.color = "White" THEN 1 ELSE -1)
      [] piece.piece_type = "Rook" ->
            OnLine(piece.location, target) /\ Unobstructed(board, piece.location, target)
      [] piece.piece_type = "Bishop" ->
            OnDiagonal(piece.location, target) /\ Unobstructed(board, piece.location, target)
      [] piece.piece_type = "Queen" ->
            /\ OnLine(piece.location, target) \/ OnDiagonal(piece.location, target)
            /\ Unobstructed(board, piece.location, target)

\* some piece of the other colour reaches a king of the colour
KingReached(board, color) ==
    \E king \in Kings(board, color) :
        \E piece \in Pieces(board) :
            piece.color = get_opposite(color) /\ Reaches(board, piece, king.location)

\* C17: for every reachable position and colour, is_in_check is true exactly if
\* some piece of the opposite colour reaches the king's square by its movement
\* rules
C17_CheckMatchesEnumeration ==
    \A color \in Colors :
        is_in_check(game.state.board, color) <=> KingReached(game.state.board, color)

\* every colour occurs at most once in the list
IsSetLike(offers) == Len(offers) = Cardinality(SeqToSet(offers))

\* C18: the draw-offer list and the takeback-offer list hold every colour at most
\* once (so at most two entries), and an offer by a colour that is already in the
\* list leaves the list as it is
C18_OfferListsAreSets ==
    /\ IsSetLike(game.state.draw_offers) /\ Len(game.state.draw_offers) <= 2
    /\ IsSetLike(game.state.takeback_offers) /\ Len(game.state.takeback_offers) <= 2
    /\ \A color \in Colors :
          /\ color \in SeqToSet(game.state.draw_offers) =>
                offer_draw(game, color).game.state.draw_offers = game.state.draw_offers
          /\ color \in SeqToSet(game.state.takeback_offers) =>
                offer_takeback(game, color).game.state.takeback_offers
                    = game.state.takeback_offers


\* the state the last accepted move was made from
PreMoveState(game_) == game_.state_history[Len(game_.state_history)]

\* C19: in an ongoing game with a move to undo, an offer_takeback that finds no
\* pending offer, or only the caller's own, returns false and changes nothing
\* but the offer list; one that finds the other colour's offer pending returns
\* true, drops the last history entry, restores the position and the turn of
\* before the move, and leaves the takeback-offer list empty
C19_TakebackByAgreement ==
    (game.result = None /\ Len(game.state_history) > 0) =>
        \A color \in Colors :
            LET pending == game.state.takeback_offers
                offered == offer_takeback(game, color)
            IN  /\ pending \in {<<>>, <<color>>} =>
                      /\ offered.ret = Ok(FALSE)
                      /\ offered.game = [game EXCEPT !.state.takeback_offers = <<color>>]
                /\ pending = <<get_opposite(color)>> =>
                      /\ offered.ret = Ok(TRUE)
                      /\ offered.game.state_history
                             = SubSeq(game.state_history, 1, Len(game.state_history) - 1)
                      /\ SamePosition(offered.game.state, PreMoveState(game))
                      /\ offered.game.state.takeback_offers = <<>>


\* what offer_draw answers in an ongoing game, by whether the other colour's
\* offer is pending
OfferDrawAnswers ==
    game.result = None =>
        \A color \in Colors :
            LET offered == offer_draw(game, color)
            IN  IF get_opposite(color) \in SeqToSet(game.state.draw_offers)
                THEN /\ offered.ret = Ok(DrawAgreed)
                     /\ offered.game.result = Some(DrawAgreed)
                ELSE /\ offered.ret = Ok(Ongoing)
                     /\ offered.game.result = None

\* a step that sets the result to DrawAgreed
BecomesDrawAgreed ==
    /\ game.result # Some(DrawAgreed)
    /\ game'.result = Some(DrawAgreed)

\* C20: in an ongoing game offer_draw returns Ongoing and leaves the result
\* unset while the other colour has no draw offer pending, and returns
\* DrawAgreed and sets the result to DrawAgreed when the other colour's offer is
\* pending; the result becomes DrawAgreed only by a call of draw or by an
\* offer_draw after which both colours are in the draw-offer list
C20_DrawByAgreement ==
    /\ []OfferDrawAnswers
    /\ [][BecomesDrawAgreed =>
             \/ call' = "draw"
             \/ /\ call' = "offer_draw"
                /\ SeqToSet(game'.state.draw_offers) = Colors]_vars

\* the second colour's offer has just ended the game
C20_Witness ==
    /\ call = "offer_draw"
    /\ Accepted(ret)
    /\ ret.value = DrawAgreed
    /\ game.result = Some(DrawAgreed)
    /\ Len(game.state.draw_offers) = 2
    /\ SeqToSet(game.state.draw_offers) = Colors


\* C21: takeback_move on an ongoing game with an empty history returns
\* NoPreviousPositions and leaves the game as it was; with a non-empty history
\* it removes exactly the last saved state from the history and makes it the
\* current state, the result staying unset
C21_TakebackMove ==
    game.result = None =>
        LET undone == takeback_move(game)
        IN  IF game.state_history = <<>>
            THEN /\ undone.ret = Err("NoPreviousPositions")
                 /\ undone.game = game
            ELSE /\ undone.ret = Ok(Unit)
                 /\ undone.game.state_history \o <<PreMoveState(game)>> = game.state_history
                 /\ undone.game.state = PreMoveState(game)
                 /\ undone.game.result = None

\* a takeback has just undone a move, and an earlier move is left in the history
C21_Witness ==
    /\ call = "takeback_move"
    /\ Accepted(ret)
    /\ game.result = None
    /\ Len(game.state_history) > 0
    /\ steps = 1


\* the u8 subtraction "file - 2" of the king's validation goes below zero in
\* some run of make_move(m): the run that panics with overflow checks and
\* wraps without them
MakeMoveUnderflows(game_, m) ==
    \E outcome \in make_move_checked(game_, m) : outcome.ret.status = "Panic"

\* the same for is_in_check(color) on the board
IsInCheckUnderflows(board, color) ==
    "panic" \in IsInCheckOutcomes(board, color, TRUE)

\* C22: in every reachable position no make_move with on-board squares, no
\* is_in_check and no listing of the valid moves of the side to move computes
\* an unsigned 8-bit value outside 0..255, and none of them aborts
C22_NoAbortNoUnderflow ==
    /\ \A m \in NextMoves :
          /\ ~MakeMoveUnderflows(game, m)
          /\ \A outcome \in MakeMoveOutcomes(game, m, overflow_checks) :
                outcome.ret.status # "Panic"
    /\ \A color \in Colors : ~IsInCheckUnderflows(game.state.board, color)
    /\ ~ValidMovesMayPanic(game.state.board, game.state.current_turn)
    /\ \A listing \in ListValidMoves(game, overflow_checks) : listing.ret.status # "Panic"


\* the letters A-H and a-h, and the digits 1-8, as characters
FileLetters == {<<64 + f>> : f \in Files} \cup {<<96 + f>> : f \in Files}

RankDigits == {<<48 + r>> : r \in Ranks}

FileOfLetter(c) == CHOOSE f \in Files : c \in {<<64 + f>>, <<96 + f>>}

RankOfDigit(c) == CHOOSE r \in Ranks : c = <<48 + r>>

\* two characters that name a square of the board
NamesSquare(s) == Len(s) = 2 /\ s[1] \in FileLetters /\ s[2] \in RankDigits

NamedSquare(s) == Square(FileOfLetter(s[1]), RankOfDigit(s[2]))

SquareErrors == {Err("IncorrectSquareFormat"), Err("InvalidSquare")}

\* what the claim expects NewMove::from_str to return for the text
ParsesAsClaimed(s, parsed) ==
    /\ parsed.status # "Panic"
    /\ Len(s) # 4 => parsed = Err("IncorrectMoveFormat")
    /\ Len(s) = 4 =>
          IF NamesSquare(SubSeq(s, 1, 2)) /\ NamesSquare(SubSeq(s, 3, 4))
          THEN parsed = Ok(NewMove(NamedSquare(SubSeq(s, 1, 2)),
                                   NamedSquare(SubSeq(s, 3, 4)), ExtraNone))
          ELSE parsed \in SquareErrors

\* C23: NewMove::from_str returns a value for every text: IncorrectMoveFormat
\* when it is not four characters long, a square error when one of its squares
\* is malformed or off the board, and otherwise the move between the two
\* squares it names, read without regard to case and without a promotion tag;
\* and a square written out and parsed again is the same square
C23_NotationParsing ==
    /\ ParsesAsClaimed(input, NewMove_from_str(input))
    /\ \A square \in ValidSquares :
          Square_from_str(Square_to_string(square)) = Ok(square)


\* what a request does when it is served alone, from the lookup to the return
Handle(chess_game, request) ==
    IF get_game(chess_game) = None
    THEN Outcome(Err("NoGame"), chess_game)
    ELSE IF request.checked /\ chess_game.state.current_turn # request.color
    THEN Outcome(Err("NotYourMove"), chess_game)
    ELSE IF request.op = "make_move"
    THEN make_move(chess_game, request.m)
    ELSE SimpleCall(chess_game, request)

SameAnswer(answer, expected) ==
    /\ IsSome(answer)
    /\ Unwrap(answer).status = expected.status
    /\ Unwrap(answer).value = expected.value

\* the game and the answers are those of serving `first` and then `second`
ServedInOrder(first, second) ==
    LET one == Handle(NewGame, sessions[first].request)
        two == Handle(one.game, sessions[second].request)
    IN  /\ game = two.game
        /\ SameAnswer(sessions[first].answer, one.ret)
        /\ SameAnswer(sessions[second].answer, two.ret)

HoldsLock(s) == sessions[s].pc \in {"locked", "found", "attempted", "answered"}

AllServed == \A s \in Sessions : sessions[s].pc = "done"

MoveAccepted(s) ==
    /\ sessions[s].request.op = "make_move"
    /\ IsSome(sessions[s].answer)
    /\ Unwrap(sessions[s].answer).status = "Ok"

\* C24: a request looks the game up, makes its turn check and its call on the
\* game only while it holds the write lock; when two concurrent requests have
\* been served, the game and both answers are those of serving them one after
\* the other in one of the two orders; and two moves submitted for the same
\* side are never both accepted
C24_SerializedAccess ==
    /\ \A s \in Sessions : HoldsLock(s) => lock = Some(s)
    /\ AllServed => (ServedInOrder(1, 2) \/ ServedInOrder(2, 1))
    /\ \A s, t \in Sessions :
          (s # t /\ MoveAccepted(s) /\ MoveAccepted(t)) =>
              sessions[s].request.color # sessions[t].request.color

\* two moves were submitted for White at the same time: one was played, the
\* other found that it was no longer White's turn
C24_Witness ==
    /\ AllServed
    /\ sessions[1].request = Request("make_move", TRUE, "White", Move(<<5,2,5,4>>, ExtraNone))
    /\ sessions[2].request
           = Request("make_move", TRUE, "White", Move(<<4,2,4,4>>, Promotion("Queen")))
    /\ MoveAccepted(2)
    /\ ~MoveAccepted(1)
    /\ Len(game.state_history) = 1


\* the first terminal condition that holds of the position, in the order no
\* valid move, insufficient material, threefold repetition, fifty moves
FirstTerminalCondition(game_) ==
    IF NoValidMoves(game_)
    THEN IF InCheck(game_) THEN Some(CheckMate(game_.state.current_turn)) ELSE Some(Stalemated)
    ELSE IF \A color \in Colors : LacksMaterial(CountOf(game_.state.board, color))
    THEN Some(InsufficientMaterial)
    ELSE IF Occurrences(game_) >= 3
    THEN Some(ThreefoldRepetition)
    ELSE IF QuietRun(game_) >= FiftyMoveLimit
    THEN Some(FiftyMoves)
    ELSE None

\* C25: after a successful move the result is the first of the terminal
\* conditions that holds, taken in the order no valid move (CheckMate or
\* Stalemated), InsufficientMaterial, ThreefoldRepetition, FiftyMoves, and it is
\* unset if none holds
C25_TerminalPriority ==
    (call = "make_move" /\ Accepted(ret)) => game.result = FirstTerminalCondition(game)


\* C26: in every reachable state the half-move clock is the number of
\* successful moves made since the last pawn move or capture (0 if the last move
\* was one), so a successful move that is neither raises it by exactly one
C26_HalfMoveClockCountsPlies ==
    /\ game.state.half_move_clock = QuietRun(game)
    /\ \A m \in NextMoves :
          \A outcome \in MakeMoveOutcomes(game, m, overflow_checks) :
              Accepted(outcome.ret) =>
                  outcome.game.state.half_move_clock
                      = (IF IsQuiet(outcome.ret.value)
                         THEN game.state.half_move_clock + 1
                         ELSE 0)


NoRights == [short_castle |-> FALSE, long_castle |-> FALSE]

\* C27: every accepted move of a king leaves both castling flags of the mover's
\* colour false and the castling rights of the other colour as they were
C27_KingMoveForfeitsCastling ==
    \A m \in NextMoves :
        \A outcome \in MakeMoveOutcomes(game, m, overflow_checks) :
            (Accepted(outcome.ret) /\ outcome.ret.value.piece_type = "King") =>
                LET mover == outcome.ret.value.piece_color
                    after == outcome.game.state.board.state
                IN  /\ get_castling_rights_for(after, mover) = NoRights
                    /\ get_castling_rights_for(after, get_opposite(mover))
                          = get_castling_rights_for(game.state.board.state, get_opposite(mover))

\* the white king has stepped from e1 to d1 with both flags still set: they are
\* cleared and Black's are kept
C27_Witness ==
    /\ scenario = "castle"
    /\ call = "make_move"
    /\ Accepted(ret)
    /\ ret.value.piece_type = "King"
    /\ ret.value.from = Square(5, 1)
    /\ Len(game.state_history) > 0
    /\ get_castling_rights_for(game.state_history[Len(game.state_history)].board.state, "White")
          = [short_castle |-> TRUE, long_castle |-> TRUE]
    /\ get_castling_rights_for(game.state.board.state, "White") = NoRights
    /\ get_castling_rights_for(game.state.board.state, "Black")
          = [short_castle |-> TRUE, long_castle |-> TRUE]


\* the rights of `color` after one of its rooks has left `from`, as claimed:
\* only the corners of the home rank matter
RightsAfterRookLeaves(rights, color, from) ==
    [short_castle |-> rights.short_castle /\ from # Square(8, InitialRank(color)),
     long_castle |-> rights.long_castle /\ from # Square(1, InitialRank(color))]

\* C28: an accepted rook move clears the mover's short-castle flag when the rook
\* leaves file 8 of its home rank and the long-castle flag when it leaves file 1
\* of its home rank, and changes no other castling right: a rook leaving any
\* other square, file 1 or 8 of another rank included, changes none
C28_RookMoveAndCastlingRights ==
    \A m \in NextMoves :
        \A outcome \in MakeMoveOutcomes(game, m, overflow_checks) :
            (Accepted(outcome.ret) /\ outcome.ret.value.piece_type = "Rook") =>
                LET mover == outcome.ret.value.piece_color
                    before == game.state.board.state
                    after == outcome.game.state.board.state
                IN  /\ get_castling_rights_for(after, mover)
                          = RightsAfterRookLeaves(get_castling_rights_for(before, mover),
                                                  mover, outcome.ret.value.from)
                    /\ get_castling_rights_for(after, get_opposite(mover))
                          = get_castling_rights_for(before, get_opposite(mover))


CastlingFlag(game_, color, side) ==
    IF side = "short"
    THEN get_castling_rights_for(game_.state.board.state, color).short_castle
    ELSE get_castling_rights_for(game_.state.board.state, color).long_castle

\* the corner the rook of that side starts from
HomeCorner(color, side) == Square(IF side = "short" THEN 8 ELSE 1, InitialRank(color))

\* among the moves played, the king of `color` has moved or a rook of `color`
\* has left the corner of that side
KingOrCornerRookMoved(game_, color, side) ==
    \E i \in 1..Len(game_.state_history) :
        LET move == MovesPlayed(game_)[i]
        IN  /\ move.piece_color = color
            /\ \/ move.piece_type = "King"
               \/ move.piece_type = "Rook" /\ move.from = HomeCorner(color, side)

\* C29: a successful make_move never turns a castling flag from false to true,
\* and in every position reached by moves a flag is false if the king of that
\* colour or the rook of that corner has moved
C29_CastlingRightsMonotone ==
    /\ [](\A color \in Colors : \A side \in {"short", "long"} :
             KingOrCornerRookMoved(game, color, side) => ~CastlingFlag(game, color, side))
    /\ [][(call' = "make_move" /\ Accepted(ret')) =>
             \A color \in Colors : \A side \in {"short", "long"} :
                 ~CastlingFlag(game, color, side) => ~CastlingFlag(game', color, side)]_vars

\* the white rook has left a1: the long flag is cleared, the short one is kept,
\* and the next move leaves it so
C29_Witness ==
    /\ scenario = "rook"
    /\ call = "make_move"
    /\ Accepted(ret)
    /\ Len(game.state_history) = 4
    /\ KingOrCornerRookMoved(game, "White", "long")
    /\ ~KingOrCornerRookMoved(game, "White", "short")
    /\ ~CastlingFlag(game, "White", "long")
    /\ CastlingFlag(game, "White", "short")


\* the other squares of the rank and of the file of a square
RankAndFile(square) ==
    {other \in ValidSquares \ {square} :
        \/ file_number(other) = file_number(square)
        \/ rank_number(other) = rank_number(square)}

\* the other squares of the two diagonals of a square
Diagonals(square) ==
    {other \in ValidSquares \ {square} :
        Abs(file_number(other) - file_number(square))
            = Abs(rank_number(other) - rank_number(square))}

FullRays(piece_type, square) ==
    CASE piece_type = "Rook" -> RankAndFile(square)
      [] piece_type = "Bishop" -> Diagonals(square)
      [] piece_type = "Queen" -> RankAndFile(square) \cup Diagonals(square)

\* C30: from every square of the board the candidates of a rook are the other
\* squares of its rank and file, those of a bishop the other squares of its two
\* diagonals and those of a queen the union of the two; and every rook, bishop
\* and queen standing on the board carries exactly these candidates
C30_SlidingCandidatesCoverRays ==
    /\ \A square \in ValidSquares :
          /\ RookCandidates(square) = RankAndFile(square)
          /\ BishopCandidates(square) = Diagonals(square)
          /\ QueenCandidates(square) = RankAndFile(square) \cup Diagonals(square)
    /\ \A piece \in Pieces(game.state.board) :
          piece.piece_type \in {"Rook", "Bishop", "Queen"} =>
              piece.valid_moves = FullRays(piece.piece_type, piece.location)


Aligned(a, b) == OnLine(a, b) \/ OnDiagonal(a, b)

\* the squares strictly between two aligned squares, in order from a toward b
OpenInterval(a, b) ==
    [i \in 1..(Distance(a, b) - 1) |->
        Square(file_number(a) + i * Sign(FileStep(a, b)),
               rank_number(a) + i * Sign(RankStep(a, b)))]

PathAsClaimed(a, b) ==
    IF a = b THEN Some(<<>>)
    ELSE IF Aligned(a, b) THEN Some(OpenInterval(a, b))
    ELSE None

\* C31: for all on-board squares a and b, find_path_to(a, b) is the empty path
\* if a = b, the squares strictly between a and b in order from a toward b if
\* they share a rank, file or diagonal, and no path (None) otherwise; so it is
\* in particular from the square of every piece on the board to every square
C31_FindPathTo ==
    /\ \A a \in ValidSquares : \A b \in ValidSquares :
          find_path_to(a, b) = PathAsClaimed(a, b)
    /\ \A piece \in Pieces(game.state.board) : \A b \in ValidSquares :
          PathTable[piece.location][b] = PathAsClaimed(piece.location, b)


\* the same BoardState with every candidate-move cache emptied
WithoutCaches(state) ==
    [state EXCEPT !.pieces = [l \in DOMAIN @ |-> [@[l] EXCEPT !.valid_moves = {}]]]

\* C32: the position hash depends on the BoardState only up to equality: the
\* current BoardState and every BoardState of the history that is equal to it
\* have the same get_hash, emptying the candidate caches changes neither the
\* equality nor the hash, and every state stored in the history carries the
\* hash of its own board
C32_HashConsistentWithEquality ==
    LET current == game.state.board.state
    IN  /\ BoardStateEq(current, WithoutCaches(current))
        /\ get_hash(WithoutCaches(current)) = get_hash(current)
        /\ \A i \in 1..Len(game.state_history) :
              LET stored == game.state_history[i]
              IN  /\ stored.board_hash = get_hash(stored.board.state)
                  /\ BoardStateEq(stored.board.state, current)
                        => get_hash(stored.board.state) = get_hash(current)

\* the position on the board has occurred before, two moves of each side
\* earlier, and the stored hash of that occurrence is the hash of the board
C32_Witness ==
    /\ call = "make_move"
    /\ Accepted(ret)
    /\ Len(game.state_history) >= 4
    /\ \E i \in 1..Len(game.state_history) :
          /\ BoardStateEq(game.state_history[i].board.state, game.state.board.state)
          /\ game.state_history[i].board.last_move # game.state.board.last_move
          /\ game.state_history[i].board_hash = get_hash(game.state.board.state)


\* every piece of a board is stored under its own location and carries the
\* candidates generated from its location, colour and type, all on the board
CachesFresh(board) ==
    \A l \in DOMAIN board.state.pieces :
        LET piece == board.state.pieces[l]
        IN  /\ piece.location = l
            /\ piece.valid_moves
                  = recalculate_valid_moves(piece.location, piece.color, piece.piece_type)
            /\ piece.valid_moves \subseteq ValidSquares

\* C33: in every reachable state every piece on the board is keyed by its own
\* location and its cached candidate list is the one generated from its current
\* location, colour and type, restricted to on-board squares
C33_CachesNeverStale == CachesFresh(game.state.board)

\* a pawn has just been promoted and the piece placed by after_move stands on
\* the final rank with the candidates of its new type
C33_Witness ==
    /\ call = "make_move"
    /\ Accepted(ret)
    /\ Unwrap(game.state.board.last_move).extra[1] = "Promotion"
    /\ \E piece \in Pieces(game.state.board) :
          /\ piece.location = Unwrap(game.state.board.last_move).to
          /\ piece.piece_type = "Queen"
          /\ piece.valid_moves # {}


\* the failure make_move owes to a move from `from`, if the square is empty or
\* holds a piece of the side not to move
OwnershipError(game_, from) ==
    LET found == get_piece(game_.state.board, from)
    IN  IF found = None THEN Some("NoPiece")
        ELSE IF Unwrap(found).color # game_.state.current_turn THEN Some("NotYourPiece")
        ELSE None

\* the destinations tried from every square: corners, edges and centre
ProbeSquares == {Square(f, r) : f \in {1, 4, 5, 8}, r \in {1, 4, 5, 8}}

AttemptErrors == {"MoveInvalid", "CannotCaptureOwnPiece", "InCheckAfterTurn"}

\* C34: on an ongoing game make_move returns NoPiece for every move from an
\* empty square and NotYourPiece for every move of a piece of the side not to
\* move, whatever the destination and the promotion tag, and leaves the game
\* as it is; MoveInvalid, CannotCaptureOwnPiece and InCheckAfterTurn are
\* returned only for a piece of the side to move
C34_OwnershipErrorsFirst ==
    game.result = None =>
        /\ \A from \in ValidSquares :
              IsSome(OwnershipError(game, from)) =>
                  \A to \in ProbeSquares : \A extra \in PromotionTags :
                      \A outcome \in MakeMoveOutcomes(game, NewMove(from, to, extra),
                                                       overflow_checks) :
                          RejectedWith(outcome.ret, Unwrap(OwnershipError(game, from)))
        /\ \A m \in NextMoves :
              \A outcome \in MakeMoveOutcomes(game, m, overflow_checks) :
                  (Rejected(outcome.ret) /\ outcome.ret.value \in AttemptErrors)
                      => OwnershipError(game, m.from) = None

\* a move of a piece of the side not to move has just been refused
C34_Witness ==
    /\ call = "make_move"
    /\ RejectedWith(ret, "NotYourPiece")
    /\ game.result = None


\* the history has an even length exactly if White is to move, and its top is
\* the position from which the last move of the current board was played
HistoryTracksPlies(game_) ==
    /\ (Len(game_.state_history) % 2 = 0) <=> (game_.state.current_turn = "White")
    /\ Len(game_.state_history) > 0 =>
          LET top == PreMoveState(game_)
              last == game_.state.board.last_move
          IN  /\ top.current_turn = get_opposite(game_.state.current_turn)
              /\ IsSome(last)
              /\ LET replayed == make_move_if_valid(top.board,
                                     NewMove(Unwrap(last).from, Unwrap(last).to, Unwrap(last).extra))
                 IN  /\ replayed.err = None
                     /\ BoardStateEq(replayed.board.state, game_.state.board.state)

\* C35: every successful make_move appends exactly the state it started from
\* (with its hash) to the history and every successful takeback removes exactly
\* the last entry; so in every reachable state the history length is even
\* exactly if White is to move and the top of the history is the position from
\* which the last move was played
C35_HistoryTracksPlies ==
    /\ []HistoryTracksPlies(game)
    /\ [][/\ (call' = "make_move" /\ Accepted(ret')) =>
                game'.state_history
                    = Append(game.state_history,
                             [game.state EXCEPT !.board_hash = get_hash(game.state.board.state)])
          /\ (call' = "takeback_move" /\ Accepted(ret')) =>
                /\ Len(game.state_history) > 0
                /\ game'.state_history
                       = SubSeq(game.state_history, 1, Len(game.state_history) - 1)
          /\ (call' = "offer_takeback" /\ Accepted(ret')) =>
                game'.state_history
                    = IF ret'.value
                      THEN SubSeq(game.state_history, 1, Len(game.state_history) - 1)
                      ELSE game.state_history
         ]_vars

\* a move has been taken back and an odd number of moves is left: Black is to move
C35_Witness ==
    /\ call = "takeback_move"
    /\ Accepted(ret)
    /\ Len(game.state_history) % 2 = 1
    /\ game.state.current_turn = "Black"
    /\ HistoryTracksPlies(game)


\* m moves a pawn of the side to move two ranks along its file
IsDoubleStep(game_, m) ==
    LET found == get_piece(game_.state.board, m.from)
    IN  /\ IsSome(found)
        /\ Unwrap(found).piece_type = "Pawn"
        /\ file_number(m.to) = file_number(m.from)
        /\ Abs(rank_number(m.to) - rank_number(m.from)) = 2

\* C36: a two-square advance of a pawn is accepted only from the pawn's home
\* rank and only if the square it passes over and the square it lands on are
\* both empty
C36_PawnCannotJump ==
    \A m \in NextMoves :
        \A outcome \in MakeMoveOutcomes(game, m, overflow_checks) :
            (IsDoubleStep(game, m) /\ Accepted(outcome.ret)) =>
                /\ rank_number(m.from)
                      = InitialPawnRank(Unwrap(get_piece(game.state.board, m.from)).color)
                /\ get_piece(game.state.board, SkippedSquare(m)) = None
                /\ get_piece(game.state.board, m.to) = None


KingCount(board, color) == Cardinality(Kings(board, color))

\* C37: in every reachable state the board holds exactly one king of each
\* colour; no accepted move lowers the number of kings of either colour, and an
\* accepted move of a pawn onto the final rank leaves neither a king nor a pawn
\* on its destination
C37_OneKingPerColour ==
    /\ \A color \in Colors : KingCount(game.state.board, color) = 1
    /\ \A m \in NextMoves :
          \A outcome \in MakeMoveOutcomes(game, m, overflow_checks) :
              Accepted(outcome.ret) =>
                  /\ \A color \in Colors :
                        KingCount(outcome.game.state.board, color)
                            >= KingCount(game.state.board, color)
                  /\ OntoFinalRank(game, m) =>
                        Unwrap(get_piece(outcome.game.state.board, m.to)).piece_type
                            \notin {"King", "Pawn"}


\* the two colours offering a takeback one after the other get it
AgreedTakebackExecutes(game_) ==
    \A color \in Colors :
        LET first == offer_takeback(game_, color)
            second == offer_takeback(first.game, get_opposite(color))
        IN  /\ Accepted(first.ret)
            /\ Accepted(second.ret)
            /\ second.ret.value

\* C38: an offer_takeback that returns a failure (GameEnded, or
\* NoPreviousPositions when the second colour offers on an empty history)
\* leaves the whole game, offer lists included, as it was before the call; and
\* once a move has been made after it, a takeback offered by both colours is
\* executed
C38_FailingOfferChangesNothing ==
    \A color \in Colors :
        LET offer == offer_takeback(game, color)
        IN  Rejected(offer.ret) =>
                /\ offer.game = game
                /\ \A m \in NextMoves :
                      \A moved \in MakeMoveOutcomes(offer.game, m, overflow_checks) :
                          (Accepted(moved.ret) /\ moved.game.result = None)
                              => AgreedTakebackExecutes(moved.game)


\* the pieces of a colour that could capture an enemy piece standing on the square
Capturers(board, square, color) ==
    {piece \in Pieces(board) : piece.color = color /\ Reaches(board, piece, square)}

\* C39: for every colour and every empty square of the board, is_attacked is
\* true exactly if some piece of that colour could capture an enemy piece
\* standing there; so a pawn straight behind the square does not make it
\* attacked and a pawn diagonally behind it does
C39_AttackedMeansCapturable ==
    \A color \in Colors :
        \A square \in ValidSquares :
            get_piece(game.state.board, square) = None =>
                (is_attacked(game.state.board, square, Some(color))
                    <=> Capturers(game.state.board, square, color) # {})


\* the call just answered has changed the position: an accepted move, an
\* accepted takeback_move, or an offer_takeback that was agreed
PositionChanged ==
    /\ Accepted(ret)
    /\ \/ call \in {"make_move", "takeback_move"}
       \/ call = "offer_takeback" /\ ret.value

\* C40: immediately after a successful make_move, a successful takeback_move
\* or an agreed offer_takeback, the draw-offer list and the takeback-offer list
\* of the current state are both empty
C40_OffersDoNotSurvive ==
    PositionChanged =>
        /\ game.state.draw_offers = <<>>
        /\ game.state.takeback_offers = <<>>

=============================================================================
